---------------------------- MODULE Spec2Model ----------------------------
(***************************************************************************)
(* Model of pdf_processor/jsonizer.py: the markdown-to-JSON processor.     *)
(*                                                                         *)
(* Strings are TLA+ strings; a character is a string of length one.        *)
(* Python's None is the empty tuple << >> and a present optional value v   *)
(* is the one-element tuple << v >>.  A Python list is a sequence, a dict  *)
(* a record.                                                               *)
(***************************************************************************)
EXTENDS Integers, Sequences, FiniteSets, TLC

(***************************************************************************)
(* Bounds of the model.                                                    *)
(***************************************************************************)
\* the longest input, in lines
MaxLines == 4

(***************************************************************************)
(* Optional values.                                                        *)
(***************************************************************************)
None == << >>

Some(v) == << v >>

(***************************************************************************)
(* str methods and operators used by the module.                           *)
(***************************************************************************)
\* s[k-1:k]: the character at position k (counted from 1), "" outside s
Char(s, k) == IF k \in 1..Len(s) THEN SubSeq(s, k, k) ELSE ""

Min(S) == CHOOSE k \in S : \A j \in S : k <= j

Max(S) == CHOOSE k \in S : \A j \in S : k >= j

\* the characters str.strip() removes and \s matches
IsSpace(c) == c \in {" ", "\t"}

IsDigit(c) == c \in {"0", "1", "2", "3", "4", "5", "6", "7", "8", "9"}

UpperChars == <<"A","B","C","D","E","F","G","H","I","J","K","L","M",
                "N","O","P","Q","R","S","T","U","V","W","X","Y","Z">>

LowerChars == <<"a","b","c","d","e","f","g","h","i","j","k","l","m",
                "n","o","p","q","r","s","t","u","v","w","x","y","z">>

IsUpper(c) == \E k \in 1..26 : UpperChars[k] = c

IsLower(c) == \E k \in 1..26 : LowerChars[k] = c

\* \w of the re module (ASCII letters, digits, underscore)
IsWordChar(c) == IsUpper(c) \/ IsLower(c) \/ IsDigit(c) \/ c = "_"

LowerChar(c) ==
    IF IsUpper(c) THEN LowerChars[CHOOSE k \in 1..26 : UpperChars[k] = c] ELSE c

\* the characters a..b of s in lower case, by halves
RECURSIVE LowerBetween(_, _, _)
LowerBetween(s, a, b) ==
    IF a > b THEN ""
    ELSE IF a = b THEN LowerChar(Char(s, a))
    ELSE LowerBetween(s, a, (a + b) \div 2) \o LowerBetween(s, (a + b) \div 2 + 1, b)

\* s.lower()
Lower(s) == LowerBetween(s, 1, Len(s))

\* s.strip()
Strip(s) ==
    LET keep == {k \in 1..Len(s) : ~IsSpace(Char(s, k))}
    IN  IF keep = {} THEN "" ELSE SubSeq(s, Min(keep), Max(keep))

\* s.startswith(p)
StartsWith(s, p) == Len(s) >= Len(p) /\ SubSeq(s, 1, Len(p)) = p

\* s[k:].startswith(p), k counted from 1
StartsAt(s, k, p) == k + Len(p) - 1 <= Len(s) /\ SubSeq(s, k, k + Len(p) - 1) = p

\* the positions at which sub occurs in s
Occurrences(s, sub) == {k \in 1..Len(s) : StartsAt(s, k, sub)}

\* sub in s
Contains(s, sub) == Occurrences(s, sub) # {}

\* s.lstrip('#')
LStripHash(s) ==
    LET keep == {k \in 1..Len(s) : Char(s, k) # "#"}
    IN  IF keep = {} THEN "" ELSE SubSeq(s, Min(keep), Len(s))

\* s.split(sep)[from:], sep a single character, scanning from position k
RECURSIVE SplitFrom(_, _, _)
SplitFrom(s, sep, k) ==
    LET hits == {j \in k..Len(s) : Char(s, j) = sep}
    IN  IF hits = {} THEN << SubSeq(s, k, Len(s)) >>
        ELSE << SubSeq(s, k, Min(hits) - 1) >> \o SplitFrom(s, sep, Min(hits) + 1)

\* s.split(sep)
Split(s, sep) == SplitFrom(s, sep, 1)

\* '\n'.join(seq)
RECURSIVE JoinLines(_)
JoinLines(seq) ==
    IF seq = << >> THEN ""
    ELSE IF Len(seq) = 1 THEN seq[1]
    ELSE seq[1] \o "\n" \o JoinLines(Tail(seq))

\* ' '.join(seq)
RECURSIVE JoinSpaces(_)
JoinSpaces(seq) ==
    IF seq = << >> THEN ""
    ELSE IF Len(seq) = 1 THEN seq[1]
    ELSE seq[1] \o " " \o JoinSpaces(Tail(seq))

\* [f(x) for x in seq if keep(x)] for the cell lists of _parse_table
RECURSIVE StrippedNonEmpty(_)
StrippedNonEmpty(cells) ==
    IF cells = << >> THEN << >>
    ELSE IF Strip(cells[1]) # ""
         THEN << Strip(cells[1]) >> \o StrippedNonEmpty(Tail(cells))
         ELSE StrippedNonEmpty(Tail(cells))

(***************************************************************************)
(* Integers and their decimal text.                                        *)
(***************************************************************************)
DigitChars == <<"0", "1", "2", "3", "4", "5", "6", "7", "8", "9">>

DigitValue(c) == (CHOOSE k \in 1..10 : DigitChars[k] = c) - 1

\* int(s) for a string of digits
RECURSIVE ParseInt(_)
ParseInt(s) ==
    IF Len(s) = 0 THEN 0
    ELSE 10 * ParseInt(SubSeq(s, 1, Len(s) - 1)) + DigitValue(Char(s, Len(s)))

\* str(n) for n >= 0
RECURSIVE IntToStr(_)
IntToStr(n) ==
    IF n < 10 THEN DigitChars[n + 1]
    ELSE IntToStr(n \div 10) \o DigitChars[(n % 10) + 1]

\* a character of the class \s, \d or [^\s] of a pattern
InClass(c, class) ==
    CASE class = "space" -> IsSpace(c)
      [] class = "digit" -> IsDigit(c)
      [] class = "nonspace" -> ~IsSpace(c)

\* the end of the longest run of characters of a class that starts at k
\* (k - 1 when the run is empty)
RunEnd(s, k, class) ==
    LET stops == {j \in k..Len(s) : ~InClass(Char(s, j), class)}
    IN  IF stops = {} THEN Len(s) ELSE Min(stops) - 1

(***************************************************************************)
(* The regular expressions of the module, as the re module matches them.   *)
(* Each gives None or Some of the match's groups.                          *)
(***************************************************************************)
\* re.search(r'!\[(.*?)\]\((.*?)\)', line)
img_match(line) ==
    LET opens == Occurrences(line, "![")
        p == Min(opens)
        mids == {q \in Occurrences(line, "](") : q >= p + 2}
        q == Min(mids)
        ends == {r \in Occurrences(line, ")") : r >= q + 2}
        r == Min(ends)
    IN  IF opens = {} THEN None
        ELSE IF mids = {} THEN None
        ELSE IF ends = {} THEN None
        ELSE Some([alt_text |-> SubSeq(line, p + 2, q - 1),
                   img_path |-> SubSeq(line, q + 2, r - 1)])

\* re.search(r'"([^"]+)"', ref_text): group 1
title_match(ref_text) ==
    LET quotes == Occurrences(ref_text, "\"")
        closing(p) == Min({q \in quotes : q > p})
        starts == {p \in quotes : /\ {q \in quotes : q > p} # {}
                                  /\ closing(p) >= p + 2}
        p0 == Min(starts)
    IN  IF starts = {} THEN None
        ELSE Some(SubSeq(ref_text, p0 + 1, closing(p0) - 1))

\* the end of the match of r'doi:?\s*([10]\.\d+/[^\s]+)' (re.IGNORECASE)
\* starting at p, as << start of group 1, end of group 1 >>, or << >>
doi_match_at(ref_text, p) ==
    LET a  == IF Char(ref_text, p + 3) = ":" THEN p + 4 ELSE p + 3
        g  == RunEnd(ref_text, a, "space") + 1
        de == RunEnd(ref_text, g + 2, "digit")
        e  == RunEnd(ref_text, de + 2, "nonspace")
    IN  IF /\ Lower(SubSeq(ref_text, p, p + 2)) = "doi"
           /\ Char(ref_text, g) \in {"1", "0"}
           /\ Char(ref_text, g + 1) = "."
           /\ de >= g + 2
           /\ Char(ref_text, de + 1) = "/"
           /\ e >= de + 2
        THEN << g, e >>
        ELSE << >>

\* re.search(r'doi:?\s*([10]\.\d+/[^\s]+)', ref_text, re.IGNORECASE): group 1
doi_match(ref_text) ==
    LET starts == {p \in 1..Len(ref_text) - 2 : doi_match_at(ref_text, p) # << >>}
        m == doi_match_at(ref_text, Min(starts))
    IN  IF starts = {} THEN None ELSE Some(SubSeq(ref_text, m[1], m[2]))

\* re.search(r'pmid:?\s*(\d+)', ref_text, re.IGNORECASE): group 1
pmid_match_at(ref_text, p) ==
    LET a  == IF Char(ref_text, p + 4) = ":" THEN p + 5 ELSE p + 4
        g  == RunEnd(ref_text, a, "space") + 1
        de == RunEnd(ref_text, g, "digit")
    IN  IF Lower(SubSeq(ref_text, p, p + 3)) = "pmid" /\ de >= g
        THEN << g, de >>
        ELSE << >>

pmid_match(ref_text) ==
    LET starts == {p \in 1..Len(ref_text) - 3 : pmid_match_at(ref_text, p) # << >>}
        m == pmid_match_at(ref_text, Min(starts))
    IN  IF starts = {} THEN None ELSE Some(SubSeq(ref_text, m[1], m[2]))

\* re.search(r'\b(19|20)\d{2}\b', ref_text): the whole match
year_match(ref_text) ==
    LET starts == {p \in 1..Len(ref_text) :
                     /\ StartsAt(ref_text, p, "19") \/ StartsAt(ref_text, p, "20")
                     /\ IsDigit(Char(ref_text, p + 2))
                     /\ IsDigit(Char(ref_text, p + 3))
                     /\ ~IsWordChar(Char(ref_text, p - 1))
                     /\ ~IsWordChar(Char(ref_text, p + 4))}
    IN  IF starts = {} THEN None
        ELSE Some(SubSeq(ref_text, Min(starts), Min(starts) + 3))

(***************************************************************************)
(* Reference and its validators.                                           *)
(***************************************************************************)
\* the lower limit of validate_year
MinYear == 1800

\* Reference.validate_year: TRUE when the validator returns, FALSE when it
\* raises ValueError
\* validate_year with the upper limit one year late
validate_year_late(v, now) == ~(v # None /\ (v[1] < MinYear \/ v[1] > now + 2))

validate_year(v, now) == ~(v # None /\ (v[1] < MinYear \/ v[1] > now + 1))

\* Reference(title=..., authors=..., year=..., doi=..., pmid=..., raw_text=...,
\* reference_type=...): the model's fields as .dict() gives them, or the
\* validation error.  validate_doi only logs and returns its argument.
Reference(title, authors, year, doi, pmid, raw_text, reference_type, now) ==
    IF validate_year(year, now)
    THEN [ok |-> TRUE,
          value |-> [title |-> title, authors |-> authors, journal |-> None,
                     year |-> year, volume |-> None, issue |-> None,
                     pages |-> None, doi |-> doi, pmid |-> pmid, isbn |-> None,
                     url |-> None, publisher |-> None, raw_text |-> raw_text,
                     reference_type |-> reference_type]]
    ELSE [ok |-> FALSE, error |-> "ValueError"]

(***************************************************************************)
(* _parse_reference.                                                       *)
(***************************************************************************)
\* the length of the separator r',|\band\b' matches at position k, or 0
AuthorSepAt(s, k) ==
    IF Char(s, k) = "," THEN 1
    ELSE IF /\ StartsAt(s, k, "and")
            /\ ~IsWordChar(Char(s, k - 1))
            /\ ~IsWordChar(Char(s, k + 3))
         THEN 3
         ELSE 0

RECURSIVE AuthorSplitFrom(_, _)
AuthorSplitFrom(s, k) ==
    LET seps == {j \in k..Len(s) : AuthorSepAt(s, j) > 0}
        j0 == Min(seps)
    IN  IF seps = {} THEN << SubSeq(s, k, Len(s)) >>
        ELSE << SubSeq(s, k, j0 - 1) >> \o AuthorSplitFrom(s, j0 + AuthorSepAt(s, j0))

\* re.split(r',|\band\b', author_part)
author_candidates(author_part) == AuthorSplitFrom(author_part, 1)

\* s.rstrip('.')
RStripDots(s) ==
    LET keep == {k \in 1..Len(s) : Char(s, k) # "."}
    IN  IF keep = {} THEN "" ELSE SubSeq(s, 1, Max(keep))

\* s.isdigit()
IsDigitStr(s) == Len(s) > 0 /\ \A k \in 1..Len(s) : IsDigit(Char(s, k))

\* the loop over author_candidates
RECURSIVE KeptAuthors(_)
KeptAuthors(cands) ==
    IF cands = << >> THEN << >>
    ELSE LET author == RStripDots(Strip(cands[1]))
         IN  IF author # "" /\ Len(author) > 1 /\ ~IsDigitStr(author)
             THEN << author >> \o KeptAuthors(Tail(cands))
             ELSE KeptAuthors(Tail(cands))

\* s.split(sub)[0] for a sub that occurs in s
BeforeFirst(s, sub) == SubSeq(s, 1, Min(Occurrences(s, sub)) - 1)

\* the characters of the fallback author part
AuthorPartChars == 100

\* the author limit
MaxAuthors == 5

\* seq[:n]
Take(seq, n) == SubSeq(seq, 1, IF Len(seq) < n THEN Len(seq) ELSE n)

\* the reference type chosen by the if/elif chain
ref_type(ref_text, doi) ==
    LET low == Lower(ref_text)
    IN  IF Contains(low, "journal") \/ doi # None THEN "journal_article"
        ELSE IF Contains(low, "book") \/ Contains(low, "isbn") THEN "book"
        ELSE IF Contains(low, "http") \/ Contains(low, "www") THEN "website"
        ELSE IF Contains(low, "conference") \/ Contains(low, "proceedings")
             THEN "conference_paper"
        ELSE "unknown"

\* _parse_reference(ref_text), with datetime.now().year = now
parse_reference(ref_text, now) ==
    LET title == title_match(ref_text)
        doi == doi_match(ref_text)
        pmid == pmid_match(ref_text)
        ym == year_match(ref_text)
        year == IF ym # None THEN Some(ParseInt(ym[1])) ELSE None
        author_part ==
            IF title # None THEN BeforeFirst(ref_text, title[1])
            ELSE IF year # None /\ year[1] # 0
                 THEN BeforeFirst(ref_text, IntToStr(year[1]))
            ELSE Take(ref_text, AuthorPartChars)
        authors == IF author_part # ""
                   THEN KeptAuthors(author_candidates(author_part))
                   ELSE << >>
    IN  Reference(title, Take(authors, MaxAuthors), year, doi, pmid, ref_text,
                  ref_type(ref_text, doi), now)

(***************************************************************************)
(* _parse_table.                                                           *)
(***************************************************************************)
\* the loop over table_lines[2:], from position k (counted from 1)
RECURSIVE TableRowsFrom(_, _)
TableRowsFrom(table_lines, k) ==
    IF k > Len(table_lines) THEN << >>
    ELSE LET row == StrippedNonEmpty(Split(table_lines[k], "|"))
         IN  IF Contains(table_lines[k], "|") /\ row # << >>
             THEN << row >> \o TableRowsFrom(table_lines, k + 1)
             ELSE TableRowsFrom(table_lines, k + 1)

\* a variant in which the line after the header is read as a row too
parse_table_reads_separator(table_lines) ==
    IF Len(table_lines) < 2
    THEN [headers |-> << >>, rows |-> << >>,
          raw_content |-> JoinLines(table_lines)]
    ELSE LET headers == StrippedNonEmpty(Split(table_lines[1], "|"))
             rows == TableRowsFrom(table_lines, 2)
         IN  [headers |-> headers, rows |-> rows,
              num_columns |-> Len(headers), num_rows |-> Len(rows),
              raw_content |-> JoinLines(table_lines)]

\* _parse_table(table_lines)
parse_table(table_lines) ==
    IF Len(table_lines) < 2
    THEN [headers |-> << >>, rows |-> << >>,
          raw_content |-> JoinLines(table_lines)]
    ELSE LET headers == StrippedNonEmpty(Split(table_lines[1], "|"))
             rows == TableRowsFrom(table_lines, 3)
         IN  [headers |-> headers, rows |-> rows,
              num_columns |-> Len(headers), num_rows |-> Len(rows),
              raw_content |-> JoinLines(table_lines)]

(***************************************************************************)
(* _parse_markdown: what the loop body computes from a line alone.         *)
(***************************************************************************)
\* line.startswith('#')
IsHeading(l) == StartsWith(l, "#")

\* len(line) - len(line.lstrip('#'))
HeadingLevel(l) == Len(l) - Len(LStripHash(l))

\* line.lstrip('#').strip()
HeadingTitle(l) == Strip(LStripHash(l))

\* any(ref_word in title.lower() for ref_word in [...])
IsReferencesTitle(title) ==
    \E ref_word \in {"reference", "bibliography", "citation"} :
        Contains(Lower(title), ref_word)

\* '|' in lines[i + 1] and '-' in lines[i + 1]
IsSeparator(raw) == Contains(raw, "|") /\ Contains(raw, "-")

\* line.startswith('- ') or line.startswith('1. ') or re.match(r'^\d+\.', line)
IsListItem(l) ==
    \/ StartsWith(l, "- ")
    \/ StartsWith(l, "1. ")
    \/ (RunEnd(l, 1, "digit") >= 1 /\ Char(l, RunEnd(l, 1, "digit") + 1) = ".")

\* re.sub(r'^[-\d.]\s*', '', line)
StripMarker(l) ==
    IF Char(l, 1) \in {"-", "."} \/ IsDigit(Char(l, 1))
    THEN SubSeq(l, RunEnd(l, 2, "space") + 1, Len(l))
    ELSE l

(***************************************************************************)
(* The inputs of the model.                                                *)
(***************************************************************************)
\* the lines an input is made of
Vocabulary ==
    {"  ",
     "# Study | pre-test",
     "## References",
     "Intro text.",
     "![fig](a.png)",
     "| A | B |",
     "|---|---|",
     "- Smith 2020",
     "- Doe 2099"}

\* content.split('\n') for the inputs of the model: never empty
Inputs == UNION {[1..n -> Vocabulary] : n \in 1..MaxLines}

\* the lines of the documents that open with a references heading: list
\* items with a hyphen and with numerals, with and without a DOI, a PMID and
\* the words the reference types are told by
RefVocabulary ==
    {"  ",
     "Intro text.",
     "![fig](a.png)",
     "| A | B |",
     "|---|---|",
     "- Smith 2020",
     "12. Lee. Journal 2021 DOI: 0.5/a",
     "1. Kim. Book pmid: 77",
     "- Doe 2099"}

\* the lines after the references heading of such a document: at most
MaxRefLines == 3

\* content.split('\n') for these documents
RefDocInputs ==
    {<< "## References" >> \o tail :
        tail \in UNION {[1..n -> RefVocabulary] : n \in 1..MaxRefLines}}

\* the lines of the documents with images inside tables: a line with pipes
\* and two images
ImgVocabulary ==
    {"  ",
     "## References",
     "- Smith 2020",
     "- Doe 2099",
     "| A | B |",
     "|---|---|",
     "| ![fig](a.png) | ![b](c) |"}

\* such a document has at most
MaxImgLines == 4

ImgDocInputs == UNION {[1..n -> ImgVocabulary] : n \in 1..MaxImgLines}

\* the lines of the documents of headings: of levels 1 to 3, with and
\* without the words that make a references section and an abstract, in
\* upper and lower case, and two lines of text, one of them a list item
HeadVocabulary ==
    {"# Abstract",
     "## ABSTRACT and Citations",
     "### Bibliography",
     "# Methods",
     "Intro text.",
     "- Smith 2020"}

\* such a document has at most
MaxHeadLines == 4

HeadDocInputs == UNION {[1..n -> HeadVocabulary] : n \in 1..MaxHeadLines}

\* every line of the model's inputs
AllLines == Vocabulary \cup RefVocabulary \cup ImgVocabulary \cup HeadVocabulary

\* the values of datetime.now().year
NowYears == {2026}

(***************************************************************************)
(* The functions of a single line, tabulated over the vocabulary so that   *)
(* they are computed once for each line and not once for each state.       *)
(***************************************************************************)
\* f as a table: TLC evaluates a function constructor anew at each
\* application, and the values of f once when it is combined with @@
Tabulated(f) == f @@ << >>

\* line.strip() of every line
StripOf == Tabulated([raw \in AllLines |-> Strip(raw)])

\* the separator test of every line
SeparatorOf == Tabulated([raw \in AllLines |-> IsSeparator(raw)])

\* what the loop body computes from a stripped line
LineOf ==
    Tabulated([l \in {Strip(raw) : raw \in AllLines} |->
        [heading |-> IsHeading(l),
         level |-> HeadingLevel(l),
         title |-> HeadingTitle(l),
         references |-> IsReferencesTitle(HeadingTitle(l)),
         img_match |-> img_match(l),
         pipe |-> Contains(l, "|"),
         list_item |-> IsListItem(l)]])

\* reference = self._parse_reference(ref_text) of every stripped line, with
\* ref_text the line without its marker
ReferenceOf ==
    Tabulated([l \in {Strip(raw) : raw \in AllLines} |->
        Tabulated([now \in NowYears |-> parse_reference(StripMarker(l), now)])])

(***************************************************************************)
(* State.                                                                  *)
(***************************************************************************)
VARIABLES
    lines,              \* content.split('\n') of the file's text
    md_file_readable,   \* whether open(md_path) and f.read() succeed
    now_year,           \* datetime.now().year
    pc,                 \* where process_markdown_file stands
    i,                  \* _parse_markdown: the loop index
    current_section,    \* _parse_markdown: None or the open section
    in_table,           \* _parse_markdown
    table_content,      \* _parse_markdown
    in_references,      \* _parse_markdown
    parsed,             \* _parse_markdown: the dict under construction
    stats,              \* self.stats
    parsed_content,     \* process_markdown_file: None or the returned dict
    text_tables_json,   \* process_markdown_file: None or the projection
    full_content_json,  \* process_markdown_file: None or the projection
    metadata_refs_json, \* process_markdown_file: None or the projection
    written,            \* the JSON files opened for writing, in order: the
                        \* name and the content of each, None when the
                        \* write did not complete
    result,             \* None or the mapping process_markdown_file returns
    arg_text,           \* ref_text of a direct _parse_reference call
    arg_year,           \* the year argument of a direct Reference(...) call
    reference,          \* None or what that call gave
    other,              \* None or the frame of a second call of
                        \* process_pdf_markdown_to_json, not running now
    alone,              \* None or the outcome of the call run alone
    arg_table_lines,    \* table_lines of a direct _parse_table call
    table               \* None or what that call gave

vars == << lines, md_file_readable, now_year, pc, i, current_section, in_table, table_content,
           in_references, parsed, stats, parsed_content, text_tables_json,
           full_content_json, metadata_refs_json, written, result, arg_text,
           arg_year, reference, other, alone, arg_table_lines, table >>

\* the locals of _parse_markdown
locals == << i, current_section, in_table, table_content, in_references, parsed >>

\* the locals of process_markdown_file after the parse
outputs == << parsed_content, text_tables_json, full_content_json,
              metadata_refs_json, written, result >>

\* the state of a direct call of the reference parser
refcall == << arg_text, arg_year, reference >>

\* a direct call of _parse_table: its argument and what it returns
tablecall == << arg_table_lines, table >>

\* the second call and the outcome to compare with
jobs == << other, alone >>

\* ProcessingStats(), with processing_time in whole units of time
ProcessingStats ==
    [total_sections |-> 0, total_tables |-> 0, total_images |-> 0,
     total_references |-> 0, processing_time |-> 0]

\* the values of (end_time - start_time).total_seconds(), in those units
Durations == {0, 1}

\* parsed as _parse_markdown creates it
NewParsed(content) ==
    [metadata |-> None, sections |-> << >>, tables |-> << >>, images |-> << >>,
     references |-> << >>, raw_content |-> content]

\* the frame of _parse_markdown while it is not running
LocalsInit ==
    /\ i = 0
    /\ current_section = None
    /\ in_table = FALSE
    /\ table_content = << >>
    /\ in_references = FALSE
    /\ parsed = NewParsed("")

\* the frame of _parse_markdown is dropped
LocalsDropped ==
    /\ i' = 0
    /\ current_section' = None
    /\ in_table' = FALSE
    /\ table_content' = << >>
    /\ in_references' = FALSE
    /\ parsed' = NewParsed("")

OutputsInit ==
    /\ parsed_content = None
    /\ text_tables_json = None
    /\ full_content_json = None
    /\ metadata_refs_json = None
    /\ written = << >>
    /\ result = None

Init ==
    /\ lines \in Inputs
    /\ md_file_readable \in BOOLEAN
    /\ now_year \in NowYears
    /\ pc = "start"
    /\ LocalsInit
    /\ OutputsInit
    /\ stats = ProcessingStats
    /\ arg_text = ""
    /\ arg_year = None
    /\ reference = None
    /\ other = None
    /\ alone = None
    /\ arg_table_lines = << >>
    /\ table = None

(***************************************************************************)
(* process_markdown_file: reading the file and entering _parse_markdown.   *)
(***************************************************************************)
\* a variant that fails only after opening the first output file
ReadMarkdownFileFailsLate ==
    /\ pc = "start"
    /\ ~md_file_readable
    /\ pc' = "read_failed"
    /\ written' = Append(written, [file |-> "text_tables", content |-> None])
    /\ UNCHANGED << lines, md_file_readable, now_year, jobs, tablecall, locals, stats,
                    parsed_content, text_tables_json, full_content_json,
                    metadata_refs_json, result, refcall >>

\* open(md_path) or f.read() raises: the error leaves process_markdown_file
\* before _parse_markdown is called
ReadMarkdownFileFails ==
    /\ pc = "start"
    /\ ~md_file_readable
    /\ pc' = "read_failed"
    /\ UNCHANGED << lines, md_file_readable, now_year, jobs, tablecall, locals, stats,
                    outputs, refcall >>

\* a variant in which every call starts with new statistics
ReadMarkdownFileResetsStats ==
    /\ pc = "start"
    /\ md_file_readable
    /\ pc' = "parse"
    /\ i' = 0
    /\ current_section' = None
    /\ in_table' = FALSE
    /\ table_content' = << >>
    /\ in_references' = FALSE
    /\ parsed' = NewParsed(JoinLines(lines))
    /\ stats' = ProcessingStats
    /\ UNCHANGED << lines, md_file_readable, now_year, jobs, tablecall, outputs,
                    refcall >>

ReadMarkdownFile ==
    /\ pc = "start"
    /\ md_file_readable
    /\ pc' = "parse"
    /\ i' = 0
    /\ current_section' = None
    /\ in_table' = FALSE
    /\ table_content' = << >>
    /\ in_references' = FALSE
    /\ parsed' = NewParsed(JoinLines(lines))
    /\ UNCHANGED << lines, md_file_readable, now_year, jobs, tablecall, stats, outputs,
                    refcall >>

(***************************************************************************)
(* _parse_markdown: one iteration of the loop over the lines.              *)
(***************************************************************************)
\* line = line.strip() of the iteration
line == StripOf[lines[i + 1]]

\* what the loop body computes from it
fact == LineOf[line]

InLoop == pc = "parse" /\ i < Len(lines)

\* '|' in line and (i + 1 < len(lines) and '|' in lines[i + 1] and '-' in lines[i + 1])
IsTableHeader ==
    /\ fact.pipe
    /\ i + 1 < Len(lines)
    /\ SeparatorOf[lines[i + 2]]

\* the section a heading opens
NewSection(level, title) ==
    [level |-> level, title |-> title, content |-> << >>, subsections |-> << >>,
     tables |-> << >>, images |-> << >>]

\* a variant in which a blank line closes the open table, unbuilt
SkipEmptyLineClosesTable ==
    /\ InLoop
    /\ line = ""
    /\ in_table' = FALSE
    /\ table_content' = << >>
    /\ i' = i + 1
    /\ UNCHANGED << lines, md_file_readable, now_year, jobs, tablecall, pc,
                    current_section, in_references, parsed, stats, outputs,
                    refcall >>

SkipEmptyLine ==
    /\ InLoop
    /\ line = ""
    /\ i' = i + 1
    /\ UNCHANGED << lines, md_file_readable, now_year, jobs, tablecall, pc,
                    current_section, in_table, table_content, in_references,
                    parsed, stats, outputs, refcall >>

\* HeadingLine without "Save current section if exists"
HeadingLineLosesSection ==
    /\ InLoop
    /\ line # ""
    /\ fact.heading
    /\ in_references' = fact.references
    /\ current_section' = Some(NewSection(fact.level, fact.title))
    /\ i' = i + 1
    /\ UNCHANGED << lines, md_file_readable, now_year, jobs, tablecall, pc, in_table,
                    table_content, parsed, stats, outputs, refcall >>

\* a variant in which a references section never ends
HeadingLineKeepsReferences ==
    /\ InLoop
    /\ line # ""
    /\ fact.heading
    /\ parsed' = IF current_section # None
                 THEN [parsed EXCEPT !.sections = Append(@, current_section[1])]
                 ELSE parsed
    /\ in_references' = (in_references \/ fact.references)
    /\ current_section' = Some(NewSection(fact.level, fact.title))
    /\ i' = i + 1
    /\ UNCHANGED << lines, md_file_readable, now_year, jobs, tablecall, pc, in_table,
                    table_content, stats, outputs, refcall >>

HeadingLine ==
    /\ InLoop
    /\ line # ""
    /\ fact.heading
    /\ parsed' = IF current_section # None
                 THEN [parsed EXCEPT !.sections = Append(@, current_section[1])]
                 ELSE parsed
    /\ in_references' = fact.references
    /\ current_section' = Some(NewSection(fact.level, fact.title))
    /\ i' = i + 1
    /\ UNCHANGED << lines, md_file_readable, now_year, jobs, tablecall, pc, in_table,
                    table_content, stats, outputs, refcall >>

\* the conditions under which the loop body gets past the heading check
PastHeading == InLoop /\ line # "" /\ ~fact.heading

\* ImageLine without "if current_section: current_section["images"].append"
ImageLineFlatOnly ==
    /\ PastHeading
    /\ fact.img_match # None
    /\ parsed' = [parsed EXCEPT !.images =
                      Append(@, [alt_text |-> fact.img_match[1].alt_text,
                                 path |-> fact.img_match[1].img_path,
                                 caption |-> fact.img_match[1].alt_text,
                                 line_number |-> i + 1])]
    /\ i' = i + 1
    /\ UNCHANGED << lines, md_file_readable, now_year, jobs, tablecall, pc,
                    current_section, in_table, table_content, in_references,
                    stats, outputs, refcall >>

\* a variant in which an image line closes the open table
ImageLineClosesTable ==
    /\ PastHeading
    /\ fact.img_match # None
    /\ LET image_data == [alt_text |-> fact.img_match[1].alt_text,
                          path |-> fact.img_match[1].img_path,
                          caption |-> fact.img_match[1].alt_text,
                          line_number |-> i + 1]
       IN  /\ parsed' = [parsed EXCEPT !.images = Append(@, image_data)]
           /\ current_section' =
                  IF current_section # None
                  THEN Some([current_section[1] EXCEPT
                                 !.images = Append(@, image_data)])
                  ELSE current_section
    /\ in_table' = FALSE
    /\ table_content' = << >>
    /\ i' = i + 1
    /\ UNCHANGED << lines, md_file_readable, now_year, jobs, tablecall, pc,
                    in_references, stats, outputs, refcall >>

ImageLine ==
    /\ PastHeading
    /\ fact.img_match # None
    /\ LET image_data == [alt_text |-> fact.img_match[1].alt_text,
                          path |-> fact.img_match[1].img_path,
                          caption |-> fact.img_match[1].alt_text,
                          line_number |-> i + 1]
       IN  /\ parsed' = [parsed EXCEPT !.images = Append(@, image_data)]
           /\ current_section' =
                  IF current_section # None
                  THEN Some([current_section[1] EXCEPT
                                 !.images = Append(@, image_data)])
                  ELSE current_section
    /\ i' = i + 1
    /\ UNCHANGED << lines, md_file_readable, now_year, jobs, tablecall, pc, in_table,
                    table_content, in_references, stats, outputs, refcall >>

PastImage == PastHeading /\ fact.img_match = None

TableHeaderLine ==
    /\ PastImage
    /\ IsTableHeader
    /\ in_table' = TRUE
    /\ table_content' = << line >>
    /\ i' = i + 1
    /\ UNCHANGED << lines, md_file_readable, now_year, jobs, tablecall, pc,
                    current_section, in_references, parsed, stats, outputs,
                    refcall >>

TableRowLine ==
    /\ PastImage
    /\ ~IsTableHeader
    /\ in_table /\ fact.pipe
    /\ table_content' = Append(table_content, line)
    /\ i' = i + 1
    /\ UNCHANGED << lines, md_file_readable, now_year, jobs, tablecall, pc,
                    current_section, in_table, in_references, parsed, stats,
                    outputs, refcall >>

\* the conditions under which the loop body reaches "elif in_table" or passes
\* the table checks
PastTable == PastImage /\ ~IsTableHeader /\ ~(in_table /\ fact.pipe)

\* table_data of the "End of table" branch; obj stands for the identity of the
\* dict object, the number of the line at which it is created
table_data == parse_table(table_content) @@ [obj |-> i + 1]

\* parsed, current_section and stats after the "elif in_table" branch
ParsedAfterTable ==
    IF in_table THEN [parsed EXCEPT !.tables = Append(@, table_data)] ELSE parsed

SectionAfterTable ==
    IF in_table /\ current_section # None
    THEN Some([current_section[1] EXCEPT !.tables = Append(@, table_data)])
    ELSE current_section

StatsAfterTable ==
    IF in_table THEN [stats EXCEPT !.total_tables = @ + 1] ELSE stats

IsReferenceLine == in_references /\ fact.list_item

\* a variant that also appends the reference line to the section's content
ReferenceLineAlsoContent ==
    /\ PastTable
    /\ IsReferenceLine
    /\ LET ref == ReferenceOf[line][now_year]
       IN  /\ ref.ok
           /\ parsed' = [ParsedAfterTable EXCEPT
                             !.references = Append(@, ref.value)]
    /\ current_section' =
           IF SectionAfterTable # None
           THEN Some([SectionAfterTable[1] EXCEPT !.content = Append(@, line)])
           ELSE SectionAfterTable
    /\ stats' = StatsAfterTable
    /\ in_table' = FALSE
    /\ table_content' = IF in_table THEN << >> ELSE table_content
    /\ i' = i + 1
    /\ UNCHANGED << lines, md_file_readable, now_year, jobs, tablecall, pc,
                    in_references, outputs, refcall >>

ReferenceLine ==
    /\ PastTable
    /\ IsReferenceLine
    /\ LET ref == ReferenceOf[line][now_year]
       IN  /\ ref.ok
           /\ parsed' = [ParsedAfterTable EXCEPT
                             !.references = Append(@, ref.value)]
    /\ current_section' = SectionAfterTable
    /\ stats' = StatsAfterTable
    /\ in_table' = FALSE
    /\ table_content' = IF in_table THEN << >> ELSE table_content
    /\ i' = i + 1
    /\ UNCHANGED << lines, md_file_readable, now_year, jobs, tablecall, pc,
                    in_references, outputs, refcall >>

\* the failing reference line skipped instead of raising
ReferenceLineSkipped ==
    /\ PastTable
    /\ IsReferenceLine
    /\ ~ReferenceOf[line][now_year].ok
    /\ parsed' = ParsedAfterTable
    /\ current_section' = SectionAfterTable
    /\ stats' = StatsAfterTable
    /\ in_table' = FALSE
    /\ table_content' = IF in_table THEN << >> ELSE table_content
    /\ i' = i + 1
    /\ UNCHANGED << lines, md_file_readable, now_year, jobs, tablecall, pc,
                    in_references, outputs, refcall >>

\* Reference(...) raises: the error leaves _parse_markdown and
\* process_markdown_file, whose frames are dropped; self.stats stays
ReferenceLineRaises ==
    /\ PastTable
    /\ IsReferenceLine
    /\ ~ReferenceOf[line][now_year].ok
    /\ pc' = "raised"
    /\ stats' = StatsAfterTable
    /\ LocalsDropped
    /\ UNCHANGED << lines, md_file_readable, now_year, jobs, tablecall, outputs, refcall >>

\* RegularContentLine opening an untitled section when none is open
RegularContentLineOpensSection ==
    /\ PastTable
    /\ ~IsReferenceLine
    /\ parsed' = ParsedAfterTable
    /\ current_section' =
           IF SectionAfterTable # None
           THEN Some([SectionAfterTable[1] EXCEPT !.content = Append(@, line)])
           ELSE Some([NewSection(1, "") EXCEPT !.content = << line >>])
    /\ stats' = StatsAfterTable
    /\ in_table' = FALSE
    /\ table_content' = IF in_table THEN << >> ELSE table_content
    /\ i' = i + 1
    /\ UNCHANGED << lines, md_file_readable, now_year, jobs, tablecall, pc,
                    in_references, outputs, refcall >>

\* a variant in which the line that ends a table is consumed by the table
RegularContentLineEndsTableOnly ==
    /\ PastTable
    /\ ~IsReferenceLine
    /\ parsed' = ParsedAfterTable
    /\ current_section' =
           IF SectionAfterTable # None /\ ~in_table
           THEN Some([SectionAfterTable[1] EXCEPT !.content = Append(@, line)])
           ELSE SectionAfterTable
    /\ stats' = StatsAfterTable
    /\ in_table' = FALSE
    /\ table_content' = IF in_table THEN << >> ELSE table_content
    /\ i' = i + 1
    /\ UNCHANGED << lines, md_file_readable, now_year, jobs, tablecall, pc,
                    in_references, outputs, refcall >>

RegularContentLine ==
    /\ PastTable
    /\ ~IsReferenceLine
    /\ parsed' = ParsedAfterTable
    /\ current_section' =
           IF SectionAfterTable # None
           THEN Some([SectionAfterTable[1] EXCEPT !.content = Append(@, line)])
           ELSE SectionAfterTable
    /\ stats' = StatsAfterTable
    /\ in_table' = FALSE
    /\ table_content' = IF in_table THEN << >> ELSE table_content
    /\ i' = i + 1
    /\ UNCHANGED << lines, md_file_readable, now_year, jobs, tablecall, pc,
                    in_references, outputs, refcall >>

(***************************************************************************)
(* _extract_metadata and the end of _parse_markdown.                       *)
(***************************************************************************)
\* the characters _extract_metadata counts as one page
PageChars == 3000

\* the sections _extract_metadata searches for an abstract
AbstractSections == 3

\* the abstract loop over parsed_content["sections"][:3], from position k
RECURSIVE AbstractFrom(_, _)
AbstractFrom(sections, k) ==
    IF k > Len(sections) THEN None
    ELSE IF Contains(Lower(sections[k].title), "abstract")
         THEN Some(JoinSpaces(sections[k].content))
         ELSE AbstractFrom(sections, k + 1)

\* a variant that looks for the abstract in all the sections
extract_metadata_abstract_anywhere(parsed_doc) ==
    LET sections == parsed_doc.sections
        content_length == Len(parsed_doc.raw_content)
        pages == content_length \div PageChars
    IN  [title |-> IF sections # << >> /\ sections[1].level = 1
                   THEN Some(sections[1].title) ELSE None,
         authors |-> << >>,
         abstract |-> AbstractFrom(sections, 1),
         keywords |-> << >>,
         publication_date |-> None,
         journal |-> None,
         doi |-> None,
         page_count |-> Some(IF pages > 1 THEN pages ELSE 1),
         language |-> "en",
         document_type |-> "academic_paper"]

\* a variant that takes the title of the first section of level 1, wherever
\* it is
extract_metadata_any_level_one(parsed_doc) ==
    LET sections == parsed_doc.sections
        content_length == Len(parsed_doc.raw_content)
        pages == content_length \div PageChars
        tops == {k \in DOMAIN sections : sections[k].level = 1}
    IN  [title |-> IF tops # {} THEN Some(sections[Min(tops)].title) ELSE None,
         authors |-> << >>,
         abstract |-> AbstractFrom(Take(sections, AbstractSections), 1),
         keywords |-> << >>,
         publication_date |-> None,
         journal |-> None,
         doi |-> None,
         page_count |-> Some(IF pages > 1 THEN pages ELSE 1),
         language |-> "en",
         document_type |-> "academic_paper"]

\* _extract_metadata(parsed_content): DocumentMetadata().dict() without
\* processed_date, a wall-clock timestamp
extract_metadata(parsed_doc) ==
    LET sections == parsed_doc.sections
        content_length == Len(parsed_doc.raw_content)
        pages == content_length \div PageChars
    IN  [title |-> IF sections # << >> /\ sections[1].level = 1
                   THEN Some(sections[1].title) ELSE None,
         authors |-> << >>,
         abstract |-> AbstractFrom(Take(sections, AbstractSections), 1),
         keywords |-> << >>,
         publication_date |-> None,
         journal |-> None,
         doi |-> None,
         page_count |-> Some(IF pages > 1 THEN pages ELSE 1),
         language |-> "en",
         document_type |-> "academic_paper"]

\* parsed after "Add the last section"
ParsedWithLastSection ==
    IF current_section # None
    THEN [parsed EXCEPT !.sections = Append(@, current_section[1])]
    ELSE parsed

\* a variant that builds the table still open at the end of the input
FinishParseFlushesTable ==
    /\ pc = "parse"
    /\ i = Len(lines)
    /\ LET flushed == IF in_table
                      THEN [ParsedWithLastSection EXCEPT !.tables = Append(@, table_data)]
                      ELSE ParsedWithLastSection
           done == [flushed EXCEPT !.metadata = Some(extract_metadata(flushed))]
       IN  /\ parsed_content' = Some(done)
           /\ stats' = [stats EXCEPT
                            !.total_sections = Len(done.sections),
                            !.total_images = Len(done.images),
                            !.total_references = Len(done.references)]
    /\ pc' = "write_text_tables"
    /\ LocalsDropped
    /\ UNCHANGED << lines, md_file_readable, now_year, jobs, tablecall,
                    text_tables_json, full_content_json, metadata_refs_json,
                    written, result, refcall >>

\* the end of the loop: the last section, the metadata, the stats, and the
\* return into process_markdown_file
FinishParse ==
    /\ pc = "parse"
    /\ i = Len(lines)
    /\ LET done == [ParsedWithLastSection EXCEPT
                        !.metadata = Some(extract_metadata(ParsedWithLastSection))]
       IN  /\ parsed_content' = Some(done)
           /\ stats' = [stats EXCEPT
                            !.total_sections = Len(done.sections),
                            !.total_images = Len(done.images),
                            !.total_references = Len(done.references)]
    /\ pc' = "write_text_tables"
    /\ LocalsDropped
    /\ UNCHANGED << lines, md_file_readable, now_year, jobs, tablecall,
                    text_tables_json, full_content_json, metadata_refs_json,
                    written, result, refcall >>

(***************************************************************************)
(* The three projections (their processing_date timestamps left out).      *)
(***************************************************************************)
\* filtered_sections with the sections kept whole, images included
FilteredSectionsWithImages(sections) ==
    SelectSeq(sections, LAMBDA section : ~IsReferencesTitle(section.title))

\* the loop of _create_text_tables_json over the sections
RECURSIVE FilteredSections(_)
FilteredSections(sections) ==
    IF sections = << >> THEN << >>
    ELSE IF IsReferencesTitle(sections[1].title)
         THEN FilteredSections(Tail(sections))
         ELSE << [level |-> sections[1].level,
                  title |-> sections[1].title,
                  content |-> sections[1].content,
                  tables |-> sections[1].tables,
                  subsections |-> sections[1].subsections] >>
              \o FilteredSections(Tail(sections))

create_text_tables_json(parsed_doc) ==
    LET filtered_sections == FilteredSections(parsed_doc.sections)
    IN  [document_type |-> "text_and_tables_only",
         metadata |-> parsed_doc.metadata,
         sections |-> filtered_sections,
         tables |-> parsed_doc.tables,
         statistics |-> [total_sections |-> Len(filtered_sections),
                         total_tables |-> Len(parsed_doc.tables)]]

create_full_content_json(parsed_doc) ==
    [document_type |-> "full_content_with_images",
     metadata |-> parsed_doc.metadata,
     sections |-> parsed_doc.sections,
     tables |-> parsed_doc.tables,
     images |-> parsed_doc.images,
     references |-> parsed_doc.references,
     statistics |-> [total_sections |-> Len(parsed_doc.sections),
                     total_tables |-> Len(parsed_doc.tables),
                     total_images |-> Len(parsed_doc.images),
                     total_references |-> Len(parsed_doc.references)]]

\* len([r for r in references if r.get(field)])
CountWith(references, field) ==
    Cardinality({k \in 1..Len(references) :
                    references[k][field] # None /\ references[k][field][1] # ""})

\* _get_reference_type_counts marking the types instead of counting them
get_reference_type_counts_marks(references) ==
    [t \in {references[k].reference_type : k \in 1..Len(references)} |-> 1]

\* _get_reference_type_counts(references): the dict, as a function on the
\* types that occur
get_reference_type_counts(references) ==
    [t \in {references[k].reference_type : k \in 1..Len(references)} |->
        Cardinality({k \in 1..Len(references) : references[k].reference_type = t})]

\* _create_metadata_references_json(parsed_content), with processing_time
\* the value of self.stats.processing_time it reads
create_metadata_references_json(parsed_doc, processing_time) ==
    [document_type |-> "metadata_and_references_only",
     metadata |-> parsed_doc.metadata,
     references |-> parsed_doc.references,
     reference_statistics |->
         [total_references |-> Len(parsed_doc.references),
          reference_types |-> get_reference_type_counts(parsed_doc.references),
          references_with_doi |-> CountWith(parsed_doc.references, "doi"),
          references_with_pmid |-> CountWith(parsed_doc.references, "pmid")],
     processing_info |-> [total_processing_time_seconds |-> processing_time]]

(***************************************************************************)
(* process_markdown_file after the parse: each projection is built and     *)
(* written in turn.                                                        *)
(***************************************************************************)
\* a file written whole, and what a failed write leaves of a file: nothing
\* when open raises, a file without its whole content when json.dump raises
Written(name, content) == Append(written, [file |-> name, content |-> Some(content)])

LeftByFailedWrite(name) ==
    {written, Append(written, [file |-> name, content |-> None])}

\* a variant that removes the files of the call when a write fails
WriteFailsAndCleansUp(name) ==
    /\ written' = << >>
    /\ pc' = "write_failed"
    /\ parsed_content' = None
    /\ text_tables_json' = None
    /\ full_content_json' = None
    /\ metadata_refs_json' = None
    /\ UNCHANGED << lines, md_file_readable, now_year, jobs, tablecall, locals, stats,
                    result, refcall >>

\* the error of a write leaves process_markdown_file, whose frame is dropped
WriteFails(name) ==
    /\ written' \in LeftByFailedWrite(name)
    /\ pc' = "write_failed"
    /\ parsed_content' = None
    /\ text_tables_json' = None
    /\ full_content_json' = None
    /\ metadata_refs_json' = None
    /\ UNCHANGED << lines, md_file_readable, now_year, jobs, tablecall, locals, stats,
                    result, refcall >>

WriteTextTables ==
    /\ pc = "write_text_tables"
    /\ text_tables_json' = Some(create_text_tables_json(parsed_content[1]))
    /\ written' = Written("text_tables", create_text_tables_json(parsed_content[1]))
    /\ pc' = "write_full_content"
    /\ UNCHANGED << lines, md_file_readable, now_year, jobs, tablecall, locals, stats,
                    parsed_content, full_content_json, metadata_refs_json,
                    result, refcall >>

WriteTextTablesFails == pc = "write_text_tables" /\ WriteFails("text_tables")

WriteFullContent ==
    /\ pc = "write_full_content"
    /\ full_content_json' = Some(create_full_content_json(parsed_content[1]))
    /\ written' = Written("full_content", create_full_content_json(parsed_content[1]))
    /\ pc' = "write_metadata_refs"
    /\ UNCHANGED << lines, md_file_readable, now_year, jobs, tablecall, locals, stats,
                    parsed_content, text_tables_json, metadata_refs_json,
                    result, refcall >>

WriteFullContentFails == pc = "write_full_content" /\ WriteFails("full_content")

\* the third projection, the processing time and the return
WriteMetadataRefs ==
    /\ pc = "write_metadata_refs"
    /\ LET built == create_metadata_references_json(parsed_content[1],
                                                    stats.processing_time)
       IN  /\ metadata_refs_json' = Some(built)
           /\ written' = Written("metadata_references", built)
    /\ \E duration \in Durations :
           stats' = [stats EXCEPT !.processing_time = duration]
    /\ result' = Some([text_tables |-> "text_tables",
                       full_content |-> "full_content",
                       metadata_references |-> "metadata_references"])
    /\ pc' = "done"
    /\ UNCHANGED << lines, md_file_readable, now_year, jobs, tablecall, locals,
                    parsed_content, text_tables_json, full_content_json,
                    refcall >>

WriteMetadataRefsFails ==
    pc = "write_metadata_refs" /\ WriteFails("metadata_references")

ParseLine ==
    \/ SkipEmptyLine
    \/ HeadingLine
    \/ ImageLine
    \/ TableHeaderLine
    \/ TableRowLine
    \/ ReferenceLine
    \/ ReferenceLineRaises
    \/ RegularContentLine

Next ==
    \/ ReadMarkdownFile
    \/ ReadMarkdownFileFails
    \/ ParseLine
    \/ FinishParse
    \/ WriteTextTables
    \/ WriteTextTablesFails
    \/ WriteFullContent
    \/ WriteFullContentFails
    \/ WriteMetadataRefs
    \/ WriteMetadataRefsFails

Spec == Init /\ [][Next]_vars

(***************************************************************************)
(* process_markdown_file on the documents that open with a references      *)
(* heading.                                                                *)
(***************************************************************************)
RefDocInit ==
    /\ lines \in RefDocInputs
    /\ md_file_readable \in BOOLEAN
    /\ now_year \in NowYears
    /\ pc = "start"
    /\ LocalsInit
    /\ OutputsInit
    /\ stats = ProcessingStats
    /\ arg_text = ""
    /\ arg_year = None
    /\ reference = None
    /\ other = None
    /\ alone = None
    /\ arg_table_lines = << >>
    /\ table = None

RefDocSpec == RefDocInit /\ [][Next]_vars

(***************************************************************************)
(* process_markdown_file on the documents with images inside tables.       *)
(***************************************************************************)
ImgDocInit ==
    /\ lines \in ImgDocInputs
    /\ md_file_readable \in BOOLEAN
    /\ now_year \in NowYears
    /\ pc = "start"
    /\ LocalsInit
    /\ OutputsInit
    /\ stats = ProcessingStats
    /\ arg_text = ""
    /\ arg_year = None
    /\ reference = None
    /\ other = None
    /\ alone = None
    /\ arg_table_lines = << >>
    /\ table = None

ImgDocSpec == ImgDocInit /\ [][Next]_vars

(***************************************************************************)
(* process_markdown_file on the documents of headings, the files readable  *)
(* and writable.  These documents have no blank line, image, pipe or       *)
(* failing reference: the steps below are all the steps of Next they       *)
(* enable.                                                                 *)
(***************************************************************************)
HeadDocInit ==
    /\ lines \in HeadDocInputs
    /\ md_file_readable = TRUE
    /\ now_year \in NowYears
    /\ pc = "start"
    /\ LocalsInit
    /\ OutputsInit
    /\ stats = ProcessingStats
    /\ arg_text = ""
    /\ arg_year = None
    /\ reference = None
    /\ other = None
    /\ alone = None
    /\ arg_table_lines = << >>
    /\ table = None

HeadDocNext ==
    \/ ReadMarkdownFile
    \/ HeadingLine
    \/ ReferenceLine
    \/ RegularContentLine
    \/ FinishParse
    \/ WriteTextTables
    \/ WriteFullContent
    \/ WriteMetadataRefs

HeadDocSpec == HeadDocInit /\ [][HeadDocNext]_vars

(***************************************************************************)
(* One processor used again: process_markdown_file called on the same file *)
(* after it has returned.                                                  *)
(***************************************************************************)
\* the calls of process_markdown_file on one processor: at most
MaxRuns == 2

\* the complete runs so far: each wrote metadata_references last
RunsDone ==
    Cardinality({k \in DOMAIN written :
                    /\ written[k].file = "metadata_references"
                    /\ written[k].content # None})

ProcessMarkdownFileAgain ==
    /\ pc = "done"
    /\ RunsDone < MaxRuns
    /\ pc' = "start"
    /\ parsed_content' = None
    /\ text_tables_json' = None
    /\ full_content_json' = None
    /\ metadata_refs_json' = None
    /\ result' = None
    /\ UNCHANGED << lines, md_file_readable, now_year, jobs, tablecall, locals, stats,
                    written, refcall >>

ReuseNext == Next \/ ProcessMarkdownFileAgain

ReuseSpec == RefDocInit /\ [][ReuseNext]_vars

(***************************************************************************)
(* process_markdown_file called on one processor for one file after        *)
(* another, each call after the one before has returned.                   *)
(***************************************************************************)
\* the files: with one table in a section, with two tables and no section,
\* with sections, an image and a reference but no table, with a table and
\* then a reference that is refused, and with nothing to find
SeqInputs ==
    {<< "# Study | pre-test", "| A | B |", "|---|---|", "| A | B |", "Intro text." >>,
     << "| A | B |", "|---|---|", "Intro text.", "| A | B |", "|---|---|",
        "Intro text." >>,
     << "# Study | pre-test", "  ", "![fig](a.png)", "## References",
        "- Smith 2020" >>,
     << "## References", "| A | B |", "|---|---|", "- Doe 2099" >>,
     << "Intro text." >>}

SeqInit ==
    /\ lines \in SeqInputs
    /\ md_file_readable \in BOOLEAN
    /\ now_year \in NowYears
    /\ pc = "start"
    /\ LocalsInit
    /\ OutputsInit
    /\ stats = ProcessingStats
    /\ arg_text = ""
    /\ arg_year = None
    /\ reference = None
    /\ other = None
    /\ alone = None
    /\ arg_table_lines = << >>
    /\ table = None

\* process_markdown_file(md_path, output_dir) again, on another file
ProcessAnotherFile ==
    /\ pc = "done"
    /\ RunsDone < MaxRuns
    /\ lines' \in SeqInputs
    /\ pc' = "start"
    /\ parsed_content' = None
    /\ text_tables_json' = None
    /\ full_content_json' = None
    /\ metadata_refs_json' = None
    /\ result' = None
    /\ UNCHANGED << md_file_readable, now_year, jobs, tablecall, locals, stats,
                    written, refcall >>

SeqNext == Next \/ ProcessAnotherFile

SeqSpec == SeqInit /\ [][SeqNext]_vars

(***************************************************************************)
(* Two calls of process_pdf_markdown_to_json on different files, their     *)
(* steps interleaved in any order.  Each call makes a processor of its own *)
(* and runs process_markdown_file on it; the clock and the file system are *)
(* what the calls have in common.  The first call is run once alone        *)
(* beforehand, for its outcome to compare with.                            *)
(***************************************************************************)
\* the documents of the first call: of at most
MaxJobLines == 2

JobInputs == UNION {[1..n -> Vocabulary] : n \in 1..MaxJobLines}

\* the documents of the second call
OtherInputs ==
    {<< "## References", "- Smith 2020" >>,
     << "# Study | pre-test", "| A | B |", "|---|---|", "Intro text." >>,
     << "![fig](a.png)", "- Doe 2099" >>,
     << "## References", "- Doe 2099" >>}

\* what a call holds: its file, its processor, and the frames of
\* process_markdown_file and _parse_markdown
Frame(job) ==
    [job |-> job, lines |-> lines, pc |-> pc, i |-> i,
     current_section |-> current_section, in_table |-> in_table,
     table_content |-> table_content, in_references |-> in_references,
     parsed |-> parsed, stats |-> stats, parsed_content |-> parsed_content,
     text_tables_json |-> text_tables_json,
     full_content_json |-> full_content_json,
     metadata_refs_json |-> metadata_refs_json, result |-> result]

\* processor = MarkdownToJSONProcessor() and the entry of process_markdown_file
NewFrame(job, md_lines) ==
    [job |-> job, lines |-> md_lines, pc |-> "start", i |-> 0,
     current_section |-> None, in_table |-> FALSE, table_content |-> << >>,
     in_references |-> FALSE, parsed |-> NewParsed(""),
     stats |-> ProcessingStats, parsed_content |-> None,
     text_tables_json |-> None, full_content_json |-> None,
     metadata_refs_json |-> None, result |-> None]

\* the frame f is the one that runs
Resume(f) ==
    /\ lines' = f.lines
    /\ pc' = f.pc
    /\ i' = f.i
    /\ current_section' = f.current_section
    /\ in_table' = f.in_table
    /\ table_content' = f.table_content
    /\ in_references' = f.in_references
    /\ parsed' = f.parsed
    /\ stats' = f.stats
    /\ parsed_content' = f.parsed_content
    /\ text_tables_json' = f.text_tables_json
    /\ full_content_json' = f.full_content_json
    /\ metadata_refs_json' = f.metadata_refs_json
    /\ result' = f.result

\* a call has ended: it returned or it raised
Ended(f) == f.pc \in {"done", "raised"}

\* the call that runs, by number
Running == IF other = None THEN 1 ELSE 3 - other[1].job

JobsInit ==
    /\ lines \in JobInputs
    /\ md_file_readable = TRUE
    /\ now_year \in NowYears
    /\ pc = "start"
    /\ LocalsInit
    /\ OutputsInit
    /\ stats = ProcessingStats
    /\ arg_text = ""
    /\ arg_year = None
    /\ reference = None
    /\ other = None
    /\ alone = None
    /\ arg_table_lines = << >>
    /\ table = None

\* a step of the call that runs, the files being readable and writable
JobStep ==
    \/ ReadMarkdownFile
    \/ ParseLine
    \/ FinishParse
    \/ WriteTextTables
    \/ WriteFullContent
    \/ WriteMetadataRefs

\* the call run alone has ended: its outcome is kept, and the two calls
\* start, the first on the same file, each with a new processor
StartBoth ==
    /\ alone = None
    /\ Ended(Frame(1))
    /\ alone' = Some(Frame(1))
    /\ \E md_lines \in OtherInputs \ {lines} :
           other' = Some(NewFrame(2, md_lines))
    /\ Resume(NewFrame(1, lines))
    /\ UNCHANGED << md_file_readable, now_year, written, refcall, tablecall >>

\* a variant in which the two calls use one processor
SwitchOnOneProcessor ==
    /\ other # None
    /\ ~Ended(other[1])
    /\ other' = Some(Frame(Running))
    /\ Resume([other[1] EXCEPT !.stats = stats])
    /\ UNCHANGED << md_file_readable, now_year, written, refcall, tablecall, alone >>

\* the call that runs is suspended and the other one goes on
Switch ==
    /\ other # None
    /\ ~Ended(other[1])
    /\ other' = Some(Frame(Running))
    /\ Resume(other[1])
    /\ UNCHANGED << md_file_readable, now_year, written, refcall, tablecall, alone >>

JobsNext == JobStep \/ StartBoth \/ Switch

JobsSpec == JobsInit /\ [][JobsNext]_vars

(***************************************************************************)
(* Direct calls of the reference parser and of the Reference constructor.  *)
(***************************************************************************)
\* the parts a reference text of the model is made of
RefAuthors == {"Smith, J. \"A Study\" ", "Lee and Kim. "}

RefYears == {"", "2020. ", "1700. ", "2024. ", "2099. "}

RefWords == {"", "Journal ", "Book ", "www ", "Proceedings "}

RefDois == {"", "doi:10.1000/xyz123", "DOI: 0.5/a", "10.1000/xyz123"}

RefTexts ==
    {a \o y \o w1 \o w2 \o d :
        a \in RefAuthors, y \in RefYears, w1 \in RefWords, w2 \in RefWords,
        d \in RefDois}

\* reference texts for the author list: more than five names, a name of one
\* character, a number, 'and' inside a name, a text without title and year
\* longer than the fallback, and a title and a year whose characters occur
\* before the place where they are matched
AuthorTexts ==
    {"A, Bo, Cy and Di, Ed, Fy, Gu, Hi. 2020",
     "Sandy Anderson, 12, J . and K. 2021",
     "AAAAAAAAAAAAAAAAAAAAAAAAAAAAAAAAAAAAAAAAAAAAAAAA, BBBBBBBBBBBBBBBBBBBBBBBBBBBBBBBBBBBBBBBBBBBBBBBBBBBBBBBBBBBB",
     "Growth, A. \"Growth\" 2020. ",
     "Lee, Kim. Vol12020x. 2020",
     "2020 Smith"}

\* the year arguments of a direct Reference(...) call
YearArgs == {None, Some(1700), Some(1799), Some(1800), Some(2024), Some(2027),
             Some(2028)}

\* the values of datetime.now().year for these calls
RefNowYears == {2022, 2023, 2026}

RefInit ==
    /\ \/ /\ pc = "call_parse_reference"
          /\ arg_text \in RefTexts \cup AuthorTexts
          /\ arg_year = None
       \/ /\ pc = "call_Reference"
          /\ arg_text = "Smith 2020"
          /\ arg_year \in YearArgs
    /\ now_year \in RefNowYears
    /\ reference = None
    /\ other = None
    /\ alone = None
    /\ arg_table_lines = << >>
    /\ table = None
    /\ lines = << "" >>
    /\ md_file_readable = TRUE
    /\ LocalsInit
    /\ OutputsInit
    /\ stats = ProcessingStats

\* reference = self._parse_reference(ref_text)
CallParseReference ==
    /\ pc = "call_parse_reference"
    /\ reference' = Some(parse_reference(arg_text, now_year))
    /\ pc' = "parse_reference_done"
    /\ UNCHANGED << lines, md_file_readable, now_year, jobs, tablecall, locals, stats,
                    outputs, arg_text, arg_year >>

\* Reference(year=arg_year, raw_text=arg_text)
CallReference ==
    /\ pc = "call_Reference"
    /\ reference' = Some(Reference(None, << >>, arg_year, None, None, arg_text,
                                   "unknown", now_year))
    /\ pc' = "Reference_done"
    /\ UNCHANGED << lines, md_file_readable, now_year, jobs, tablecall, locals, stats,
                    outputs, arg_text, arg_year >>

RefNext == CallParseReference \/ CallReference

RefSpec == RefInit /\ [][RefNext]_vars

(***************************************************************************)
(* _parse_table called directly on a buffer.  The buffer of _parse_markdown *)
(* holds stripped lines that contain '|' (lines 214-215 and 219-220).      *)
(***************************************************************************)
TableVocabulary ==
    {"| A | B |", "|---|---|", "| 1 | 2 | 3 |", "|  |  |", "| | y |",
     "a | b-c"}

MaxTableLines == 4

TableBuffers ==
    UNION {[1..n -> TableVocabulary] : n \in 0..MaxTableLines}

TableInit ==
    /\ pc = "call_parse_table"
    /\ arg_table_lines \in TableBuffers
    /\ table = None
    /\ now_year \in NowYears
    /\ arg_text = ""
    /\ arg_year = None
    /\ reference = None
    /\ other = None
    /\ alone = None
    /\ lines = << "" >>
    /\ md_file_readable = TRUE
    /\ LocalsInit
    /\ OutputsInit
    /\ stats = ProcessingStats

\* table_data = self._parse_table(table_content)
CallParseTable ==
    /\ pc = "call_parse_table"
    /\ table' = Some(parse_table(arg_table_lines))
    /\ pc' = "parse_table_done"
    /\ UNCHANGED << lines, md_file_readable, now_year, jobs, locals, stats,
                    outputs, refcall, arg_table_lines >>

TableNext == CallParseTable

TableSpec == TableInit /\ [][TableNext]_vars

(***************************************************************************)
(* The properties.  What a property says about a line of the input is      *)
(* stated from the text of the line, tabulated over the vocabulary.        *)
(***************************************************************************)
\* the trimmed text of a line
TrimmedOf == Tabulated([raw \in AllLines \cup {""} |-> Strip(raw)])

\* a heading line: a non-empty line whose trimmed text starts with '#'
HeadingLineOf ==
    Tabulated([raw \in AllLines \cup {""} |-> Char(Strip(raw), 1) = "#"])

\* the number of '#' a trimmed line starts with
LeadingHashes(t) == Cardinality({k \in 1..Len(t) : \A j \in 1..k : Char(t, j) = "#"})

\* the level and the title a heading line gives
LevelOf == Tabulated([raw \in AllLines \cup {""} |-> LeadingHashes(Strip(raw))])

TitleOf ==
    Tabulated([raw \in AllLines \cup {""} |->
        Strip(SubSeq(Strip(raw), LeadingHashes(Strip(raw)) + 1, Len(Strip(raw))))])

\* the heading lines among the first n lines of the input
Headings(n) == {k \in 1..n : HeadingLineOf[lines[k]]}

\* the j-th of them
NthHeading(j, n) ==
    CHOOSE k \in Headings(n) : Cardinality({h \in Headings(n) : h <= k}) = j

\* the lines read so far, the sections they gave (the open one last) and the
\* flat lists: those of the builder while it runs, those of the returned tree
\* afterwards
Parsing == pc = "parse"

Parsed == parsed_content # None

LinesRead == IF Parsing THEN i ELSE IF Parsed THEN Len(lines) ELSE 0

Sections ==
    IF Parsing THEN parsed.sections \o current_section
    ELSE IF Parsed THEN parsed_content[1].sections
    ELSE << >>

Tree == IF Parsed THEN parsed_content[1] ELSE parsed

\* C1: the sections are the heading lines, one section for each heading, in
\* the order of the headings, each with the level (the count of leading '#')
\* and the trimmed title of its heading; while the builder runs a section is
\* open exactly when a heading has been read, and all sections before it are
\* closed
C1_SectionsAreHeadings ==
    /\ Len(Sections) = Cardinality(Headings(LinesRead))
    /\ \A j \in 1..Len(Sections) :
          /\ Sections[j].level = LevelOf[lines[NthHeading(j, LinesRead)]]
          /\ Sections[j].title = TitleOf[lines[NthHeading(j, LinesRead)]]
    /\ Parsing => /\ (current_section # None) = (Headings(i) # {})
                  /\ Len(parsed.sections) =
                         IF Headings(i) = {} THEN 0 ELSE Cardinality(Headings(i)) - 1

\* C1's case: two headings of different levels, the first closed by the second
\* and the second by the end of the input
C1_Witness ==
    /\ Parsed
    /\ Len(Sections) = 2
    /\ Sections[1].level = 1 /\ Sections[1].title = "Study | pre-test"
    /\ Sections[2].level = 2 /\ Sections[2].title = "References"
    /\ Sections[1].content # << >>

\* the section open while line n is handled: its place among the sections, 0
\* when no heading precedes the line
OpenAt(n) == Cardinality(Headings(n - 1))

\* an image line: a non-heading line with the markdown image syntax
ImageLineOf ==
    Tabulated([raw \in AllLines \cup {""} |->
        /\ ~HeadingLineOf[raw]
        /\ \E a \in 1..Len(raw) : \E b \in a + 2..Len(raw) : \E c \in b + 2..Len(raw) :
              /\ SubSeq(raw, a, a + 1) = "!["
              /\ SubSeq(raw, b, b + 1) = "]("
              /\ Char(raw, c) = ")"])

\* the places <<section, position>> where the image created at line n, or the
\* table finalized at line n, sits in the sections' local lists, and its
\* positions in the flat list
ImagePlaces(n) ==
    UNION {{<< s, k >> : k \in {m \in DOMAIN Sections[s].images :
                                   Sections[s].images[m].line_number = n}} :
           s \in DOMAIN Sections}

TablePlaces(n) ==
    UNION {{<< s, k >> : k \in {m \in DOMAIN Sections[s].tables :
                                   Sections[s].tables[m].obj = n}} :
           s \in DOMAIN Sections}

FlatImages(n) == {m \in DOMAIN Tree.images : Tree.images[m].line_number = n}

FlatTables(n) == {m \in DOMAIN Tree.tables : Tree.tables[m].obj = n}

\* every entry of a section's local list is one entry of the flat list, and
\* every image line read so far gave one entry of the flat image list
LocalListsAreViews ==
    /\ \A s \in DOMAIN Sections :
          /\ \A m \in DOMAIN Sections[s].images :
                /\ Cardinality(FlatImages(Sections[s].images[m].line_number)) = 1
                /\ \E f \in DOMAIN Tree.images : Tree.images[f] = Sections[s].images[m]
          /\ \A m \in DOMAIN Sections[s].tables :
                /\ Cardinality(FlatTables(Sections[s].tables[m].obj)) = 1
                /\ \E f \in DOMAIN Tree.tables : Tree.tables[f] = Sections[s].tables[m]
    /\ \A n \in 1..LinesRead :
          ImageLineOf[lines[n]] => Cardinality(FlatImages(n)) = 1

\* C2 as stated: every table and image of the flat lists is in the local list
\* of exactly one section, the one open when it was parsed, and none of them
\* was parsed while no section was open
C2_FlatEntriesHaveASection ==
    /\ LocalListsAreViews
    /\ \A m \in DOMAIN Tree.images :
          LET n == Tree.images[m].line_number
          IN  /\ OpenAt(n) # 0
              /\ Cardinality(ImagePlaces(n)) = 1
              /\ \A p \in ImagePlaces(n) : p[1] = OpenAt(n)
    /\ \A m \in DOMAIN Tree.tables :
          LET n == Tree.tables[m].obj
          IN  /\ OpenAt(n) # 0
              /\ Cardinality(TablePlaces(n)) = 1
              /\ \A p \in TablePlaces(n) : p[1] = OpenAt(n)

\* C2: every table and image of the flat lists that was parsed while a section
\* was open is in the local list of exactly one section, the one open when it
\* was parsed (for a table: when it was finalized); one parsed while no section
\* was open is in the flat list only and in no section's local list
C2_FlatEntriesAndOpenSection ==
    /\ LocalListsAreViews
    /\ \A m \in DOMAIN Tree.images :
          LET n == Tree.images[m].line_number
          IN  IF OpenAt(n) = 0 THEN ImagePlaces(n) = {}
              ELSE /\ Cardinality(ImagePlaces(n)) = 1
                   /\ \A p \in ImagePlaces(n) : p[1] = OpenAt(n)
    /\ \A m \in DOMAIN Tree.tables :
          LET n == Tree.tables[m].obj
          IN  IF OpenAt(n) = 0 THEN TablePlaces(n) = {}
              ELSE /\ Cardinality(TablePlaces(n)) = 1
                   /\ \A p \in TablePlaces(n) : p[1] = OpenAt(n)

\* C2's case: an image parsed before the first heading and an image parsed in
\* the first of two sections
C2_Witness ==
    /\ Parsed
    /\ Len(Sections) = 2
    /\ \E m \in DOMAIN Tree.images : OpenAt(Tree.images[m].line_number) = 0
    /\ Sections[1].images # << >>
    /\ Sections[2].images = << >>

\* the tables of the flat list and of the sections' local lists
BuiltTables ==
    {Tree.tables[m] : m \in DOMAIN Tree.tables}
    \cup UNION {{Sections[s].tables[m] : m \in DOMAIN Sections[s].tables} :
                s \in DOMAIN Sections}

\* C3: every table in the flat list or in a section's local list has the
\* fields num_rows and num_columns, with num_rows the number of its rows and
\* num_columns the number of its headers
C3_TablesCarryDimensions ==
    \A t \in BuiltTables :
        /\ "num_rows" \in DOMAIN t
        /\ "num_columns" \in DOMAIN t
        /\ t.num_rows = Len(t.rows)
        /\ t.num_columns = Len(t.headers)

\* a line with a pipe; a separator line; the number of non-empty cells of a
\* line; a table row (header or data): a pipe line with a non-empty cell that
\* is no separator, heading or image
PipeOf == Tabulated([raw \in AllLines \cup {""} |-> Contains(raw, "|")])

SeparatorLineOf ==
    Tabulated([raw \in AllLines \cup {""} |->
        /\ Contains(raw, "|") /\ Contains(raw, "-")
        /\ \A k \in 1..Len(raw) : Char(raw, k) \in {"|", "-", ":", " "}])

CellsOf ==
    Tabulated([raw \in AllLines \cup {""} |->
        LET bars == {0, Len(raw) + 1} \cup {k \in 1..Len(raw) : Char(raw, k) = "|"}
        IN  Cardinality({a \in bars :
                \E b \in bars :
                    /\ a < b
                    /\ \A k \in a + 1..b - 1 : Char(raw, k) # "|"
                    /\ \E k \in a + 1..b - 1 : ~IsSpace(Char(raw, k))})])

TableRowOf ==
    Tabulated([raw \in AllLines \cup {""} |->
        /\ PipeOf[raw] /\ CellsOf[raw] >= 1
        /\ ~SeparatorLineOf[raw] /\ ~HeadingLineOf[raw] /\ ~ImageLineOf[raw]])

\* the input contains one pipe table: a header at line h, a separator, n data
\* rows, and no pipe on any other line
OnePipeTable(h, n) ==
    /\ n >= 1
    /\ h + 1 + n <= Len(lines)
    /\ TableRowOf[lines[h]]
    /\ SeparatorLineOf[lines[h + 1]]
    /\ \A k \in h + 2..h + 1 + n : TableRowOf[lines[k]]
    /\ \A k \in 1..Len(lines) : k \notin h..h + 1 + n => ~PipeOf[lines[k]]

\* C4: when the input contains one pipe table of a header, a separator and n
\* data rows, whatever is around it, the text_and_tables projection has exactly
\* one table, with num_columns the number of non-empty header cells and
\* num_rows = n
C4_OneTableInProjection ==
    text_tables_json # None =>
        \A h \in 1..Len(lines) : \A n \in 1..Len(lines) :
            OnePipeTable(h, n) =>
                LET tables == text_tables_json[1].tables
                IN  /\ Len(tables) = 1
                    /\ "num_columns" \in DOMAIN tables[1]
                    /\ "num_rows" \in DOMAIN tables[1]
                    /\ tables[1].num_columns = CellsOf[lines[h]]
                    /\ tables[1].num_rows = n

\* the outcome of the call of the parser, or of the direct construction
ParserDone == pc = "parse_reference_done"

ConstructionDone == pc = "Reference_done"

\* the first substring 10.<digits>/<non-space characters> of a text
LooseDoi(text) ==
    LET starts == {p \in 1..Len(text) :
                     /\ StartsAt(text, p, "10.")
                     /\ IsDigit(Char(text, p + 3))
                     /\ LET de == RunEnd(text, p + 3, "digit")
                        IN  /\ Char(text, de + 1) = "/"
                            /\ de + 2 <= Len(text)
                            /\ ~IsSpace(Char(text, de + 2))}
        p0 == Min(starts)
    IN  IF starts = {} THEN None
        ELSE Some(SubSeq(text, p0,
                         RunEnd(text, RunEnd(text, p0 + 3, "digit") + 2, "nonspace")))

\* C5: the doi of the Reference the parser builds is the first substring
\* 10.<digits>/<non-space characters> of the text, with or without a 'doi'
\* label before it, and is unset only when the text has no such substring
C5_DoiIsFirstLooseMatch ==
    (ParserDone /\ reference[1].ok) =>
        reference[1].value.doi = LooseDoi(arg_text)

\* the type the priority rules give a text
TypeByPriority(text) ==
    LET low == Lower(text)
    IN  CASE Contains(low, "journal") \/ LooseDoi(text) # None -> "journal_article"
          [] OTHER ->
        CASE Contains(low, "book") \/ Contains(low, "isbn") -> "book"
          [] OTHER ->
        CASE Contains(low, "http") \/ Contains(low, "www") -> "website"
          [] OTHER ->
        CASE Contains(low, "conference") \/ Contains(low, "proceedings") ->
                 "conference_paper"
          [] OTHER -> "unknown"

\* C6: the reference_type of the Reference the parser builds is the type of
\* the earliest rule its text matches: journal_article for 'journal' or a DOI
\* in the text, then book, website, conference_paper, else unknown
C6_TypeByPriority ==
    (ParserDone /\ reference[1].ok) =>
        reference[1].value.reference_type = TypeByPriority(arg_text)

\* the first standalone four-digit number of a text that begins with 19 or 20
StandaloneYear(text) ==
    LET starts == {p \in 1..Len(text) - 3 :
                     /\ SubSeq(text, p, p + 1) \in {"19", "20"}
                     /\ IsDigit(Char(text, p + 2)) /\ IsDigit(Char(text, p + 3))
                     /\ ~IsWordChar(Char(text, p - 1))
                     /\ ~IsWordChar(Char(text, p + 4))}
    IN  IF starts = {} THEN None
        ELSE Some(ParseInt(SubSeq(text, Min(starts), Min(starts) + 3)))

\* construction with a year fails exactly when the year is outside
\* [1800, current year + 1], and keeps the year it accepts
ConstructionChecksYear ==
    ConstructionDone =>
        /\ reference[1].ok =
               (arg_year = None
                \/ (arg_year[1] >= MinYear /\ arg_year[1] <= now_year + 1))
        /\ reference[1].ok => reference[1].value.year = arg_year

\* C7 as stated: construction fails for a year outside [1800, current year + 1]
\* and keeps a year inside; a reference whose raw text contains 1700 fails
\* construction, one whose raw text contains 2024 succeeds when the current
\* year is at least 2024
C7_Text1700Fails ==
    /\ ConstructionChecksYear
    /\ (ParserDone /\ Contains(arg_text, "1700")) => ~reference[1].ok
    /\ (ParserDone /\ Contains(arg_text, "2024") /\ now_year >= 2024) =>
           reference[1].ok

\* C7: construction fails for a year outside [1800, current year + 1] and
\* keeps a year inside; the parser takes as year only the first standalone
\* four-digit number beginning with 19 or 20, so a reference whose raw text
\* contains 1700 and no such number is built with its year unset, the parser
\* fails exactly when that number is greater than current year + 1, and a
\* reference whose year is 2024 succeeds when the current year is at least 2024
C7_YearRange ==
    /\ ConstructionChecksYear
    /\ ParserDone =>
          LET year == StandaloneYear(arg_text)
          IN  /\ reference[1].ok = (year = None \/ year[1] <= now_year + 1)
              /\ reference[1].ok => reference[1].value.year = year
              /\ (Contains(arg_text, "1700") /\ year = None) =>
                     (reference[1].ok /\ reference[1].value.year = None)
              /\ (year = Some(2024) /\ now_year >= 2024) => reference[1].ok

\* C7's case: the parser has built a Reference from a text with the year 1700
C7_Witness ==
    /\ ParserDone
    /\ Contains(arg_text, "1700")
    /\ reference[1].ok
    /\ reference[1].value.year = None

\* a title with 'reference', 'bibliography' or 'citation' in it, in any case
ReferencesTitleOf ==
    Tabulated([title \in {TitleOf[raw] : raw \in AllLines \cup {""}} |->
        \/ Contains(Lower(title), "reference")
        \/ Contains(Lower(title), "bibliography")
        \/ Contains(Lower(title), "citation")])

\* the year of a line, and a reference-candidate line: a list item that is no
\* heading, image or table line
YearOf == Tabulated([raw \in AllLines \cup {""} |-> StandaloneYear(Strip(raw))])

CandidateOf ==
    Tabulated([raw \in AllLines \cup {""} |->
        LET t == Strip(raw)
        IN  /\ \/ StartsWith(t, "- ")
               \/ \E k \in 1..Len(t) - 1 :
                      /\ \A j \in 1..k : IsDigit(Char(t, j))
                      /\ Char(t, k + 1) = "."
            /\ ~HeadingLineOf[raw] /\ ~ImageLineOf[raw] /\ ~PipeOf[raw]])

\* line n is a reference-candidate line in a references section whose year
\* makes the construction of the Reference fail
FailingCandidate(n) ==
    /\ CandidateOf[lines[n]]
    /\ OpenAt(n) # 0
    /\ ReferencesTitleOf[TitleOf[lines[NthHeading(OpenAt(n), n - 1)]]]
    /\ YearOf[lines[n]] # None
    /\ YearOf[lines[n]][1] > now_year + 1

\* nothing was returned and nothing was written
NothingProduced ==
    /\ parsed_content = None
    /\ result = None
    /\ written = << >>
    /\ text_tables_json = None
    /\ full_content_json = None
    /\ metadata_refs_json = None

\* C8: when the builder comes to a reference-candidate line whose Reference
\* cannot be constructed, the error leaves _parse_markdown and
\* process_markdown_file: no parse tree is returned, no JSON file is written,
\* the references parsed before are gone with the builder's frame, and the
\* operation takes no further step; nothing else makes the operation fail
C8_FailurePropagates ==
    [][/\ (Parsing /\ i < Len(lines) /\ FailingCandidate(i + 1)) => pc' = "raised"
       /\ pc' = "raised" =>
              /\ Parsing /\ i < Len(lines) /\ FailingCandidate(i + 1)
              /\ NothingProduced'
              /\ parsed'.references = << >>
       /\ pc # "raised"]_vars

\* C8's case: the operation has failed at a reference line that follows a
\* reference that was parsed
C8_Witness ==
    /\ pc = "raised"
    /\ Len(lines) >= 3
    /\ lines[1] = "## References"
    /\ lines[2] = "- Smith 2020"
    /\ lines[3] = "- Doe 2099"
    /\ NothingProduced

\* the lines between the heading of section s and the next heading (or the
\* last line read) that are neither empty nor headings
LinesOfSection(s) ==
    {n \in 1..LinesRead :
        /\ OpenAt(n) = s
        /\ ~HeadingLineOf[lines[n]]
        /\ TrimmedOf[lines[n]] # ""}

\* C9: without a heading line there is no section and the metadata title is
\* unset, whatever else the input holds; the content of a section is made of
\* lines that follow its heading, so the lines before the first heading are
\* in no section
C9_NoHeadingNoSection ==
    /\ Headings(LinesRead) = {} =>
          /\ Sections = << >>
          /\ Parsed => parsed_content[1].metadata[1].title = None
    /\ \A s \in DOMAIN Sections :
          /\ Len(Sections[s].content) <= Cardinality(LinesOfSection(s))
          /\ \A k \in DOMAIN Sections[s].content :
                \E n \in LinesOfSection(s) :
                    Sections[s].content[k] = TrimmedOf[lines[n]]

\* C9's case: an input of a table, plain text and an image without a heading
C9_Witness ==
    /\ Parsed
    /\ Headings(Len(lines)) = {}
    /\ \E n \in DOMAIN lines : lines[n] = "Intro text."
    /\ Tree.images # << >>
    /\ Tree.tables # << >>
    /\ Sections = << >>

\* the sections the text_and_tables projection retains
Retained ==
    SelectSeq(parsed_content[1].sections,
              LAMBDA sec : ~ReferencesTitleOf[sec.title])

\* C10: the text_and_tables projection has the sections whose title has no
\* 'reference', 'bibliography' or 'citation' in it, in their order, each with
\* its level, title, content, tables and subsections and without images; it
\* has the whole flat table list; its statistics count the retained sections
\* and the flat table list
C10_TextTablesProjection ==
    text_tables_json # None =>
        LET out == text_tables_json[1]
        IN  /\ Len(out.sections) = Len(Retained)
            /\ \A k \in DOMAIN out.sections :
                  /\ DOMAIN out.sections[k] =
                         {"level", "title", "content", "tables", "subsections"}
                  /\ out.sections[k].level = Retained[k].level
                  /\ out.sections[k].title = Retained[k].title
                  /\ out.sections[k].content = Retained[k].content
                  /\ out.sections[k].tables = Retained[k].tables
                  /\ out.sections[k].subsections = Retained[k].subsections
            /\ out.tables = parsed_content[1].tables
            /\ out.statistics.total_sections = Len(Retained)
            /\ out.statistics.total_tables = Len(parsed_content[1].tables)

\* C10's case: a projection of a document whose only table is attached to a
\* references section
C10_Witness ==
    /\ text_tables_json # None
    /\ \E s \in DOMAIN parsed_content[1].sections :
          /\ ReferencesTitleOf[parsed_content[1].sections[s].title]
          /\ parsed_content[1].sections[s].tables # << >>
    /\ Len(text_tables_json[1].tables) = 1
    /\ text_tables_json[1].sections = << >>

\* the sum of the values of a function with natural numbers as values
RECURSIVE SumOfCounts(_)
SumOfCounts(counts) ==
    IF DOMAIN counts = {} THEN 0
    ELSE LET t == CHOOSE x \in DOMAIN counts : TRUE
         IN  counts[t] + SumOfCounts([x \in DOMAIN counts \ {t} |-> counts[x]])

\* the positions of the references of a list with a type, or with a
\* non-empty value of a field
OfType(refs, t) == {k \in DOMAIN refs : refs[k].reference_type = t}

NonEmpty(refs, field) ==
    {k \in DOMAIN refs : refs[k][field] # None /\ refs[k][field] # Some("")}

\* C11: the metadata_and_references projection has the metadata and the flat
\* reference list; total_references is the length of the list; reference_types
\* maps each type that occurs in the list to the number of references of the
\* type, so the counts sum to total_references; references_with_doi and
\* references_with_pmid count the references with a non-empty doi and pmid
C11_ReferenceStatistics ==
    metadata_refs_json # None =>
        LET out == metadata_refs_json[1]
            refs == parsed_content[1].references
            statistics == out.reference_statistics
        IN  /\ out.metadata = parsed_content[1].metadata
            /\ out.references = refs
            /\ statistics.total_references = Len(refs)
            /\ DOMAIN statistics.reference_types =
                   {refs[k].reference_type : k \in DOMAIN refs}
            /\ \A t \in DOMAIN statistics.reference_types :
                   statistics.reference_types[t] = Cardinality(OfType(refs, t))
            /\ SumOfCounts(statistics.reference_types) = Len(refs)
            /\ statistics.references_with_doi = Cardinality(NonEmpty(refs, "doi"))
            /\ statistics.references_with_pmid = Cardinality(NonEmpty(refs, "pmid"))

\* C11's case: a projection of three references, two of them of one type,
\* one with a DOI
C11_Witness ==
    /\ metadata_refs_json # None
    /\ metadata_refs_json[1].reference_statistics.total_references = 3
    /\ Cardinality(DOMAIN metadata_refs_json[1].reference_statistics.reference_types) = 2
    /\ metadata_refs_json[1].reference_statistics.references_with_doi = 1

\* the files written whole so far
WholeFiles == {k \in DOMAIN written : written[k].content # None}

\* C12: each builder is a pure function of the parse tree: processing the
\* same document again (the same parse tree) writes, for each of the three
\* files, the same projection as before
C12_ProjectionsDependOnTreeOnly ==
    \A a, b \in WholeFiles :
        written[a].file = written[b].file => written[a].content = written[b].content

\* the two projections that do not read the processor: written twice, they
\* are written alike
C12_TextAndFullAreFunctionsOfTheTree ==
    \A a, b \in WholeFiles :
        /\ written[a].file = written[b].file
        /\ written[a].file # "metadata_references"
        => written[a].content = written[b].content

\* C12's case: the three files written twice by one processor
C12_Witness ==
    /\ RunsDone = 2
    /\ Cardinality(WholeFiles) = 6

\* C13: when the markdown file is missing or unreadable the only step of
\* process_markdown_file is its failure: it is taken before _parse_markdown
\* is entered (the parser's locals and the statistics are untouched), it
\* writes no file and returns nothing, and no step follows it; the call
\* fails in this way for no other reason
C13_UnreadableFileFailsBeforeParse ==
    [][/\ (pc = "start" /\ ~md_file_readable) =>
              /\ pc' = "read_failed"
              /\ UNCHANGED << locals, stats, outputs >>
       /\ pc' = "read_failed" => (pc = "start" /\ ~md_file_readable)
       /\ pc # "read_failed"]_vars

\* C13's case: the call has failed on an unreadable file of two or more
\* lines, with nothing parsed and nothing written
C13_Witness ==
    /\ pc = "read_failed"
    /\ ~md_file_readable
    /\ Len(lines) >= 2
    /\ parsed = NewParsed("")
    /\ written = << >>
    /\ result = None

\* the order in which process_markdown_file writes its files
WriteOrder == << "text_tables", "full_content", "metadata_references" >>

\* the files opened so far are the first of the order, and only the last of
\* them can be an incomplete one
WrittenInOrder ==
    /\ Len(written) <= Len(WriteOrder)
    /\ \A k \in DOMAIN written : written[k].file = WriteOrder[k]
    /\ \A k \in DOMAIN written : k < Len(written) => written[k].content # None

\* C14: in one call of process_markdown_file the files are written in the
\* order text_tables, full_content, metadata_references, and none before
\* the parse has returned; a write that fails ends the call with no mapping
\* returned, all files written before it still there and whole, and none of
\* the later ones written; the path mapping is returned exactly when the
\* three files have been written whole
C14_WritesInOrderAndFailuresPropagate ==
    /\ [](/\ WrittenInOrder
          /\ written # << >> =>
                 pc \in {"write_full_content", "write_metadata_refs", "done",
                         "write_failed"}
          /\ pc = "write_failed" => WholeFiles # DOMAIN WriteOrder
          /\ result # None <=> pc = "done"
          /\ pc = "done" <=> WholeFiles = DOMAIN WriteOrder)
    /\ [][/\ pc # "write_failed"
          /\ Len(written') >= Len(written)
          /\ SubSeq(written', 1, Len(written)) = written
          /\ pc' = "write_failed" =>
                 /\ pc \in {"write_text_tables", "write_full_content",
                             "write_metadata_refs"}
                 /\ WholeFiles' = WholeFiles]_vars

\* C14's case: the write of full_content failed half way, after text_tables
\* was written whole
C14_Witness ==
    /\ pc = "write_failed"
    /\ Len(written) = 2
    /\ written[1].content # None
    /\ written[2].content = None
    /\ Len(written[1].content[1].sections) >= 1
    /\ result = None

\* the frame of the first of the two calls, and what a call gave
FirstCall == IF Running = 1 THEN Frame(1) ELSE other[1]

Outcome(f) ==
    [pc |-> f.pc, parsed_content |-> f.parsed_content,
     text_tables_json |-> f.text_tables_json,
     full_content_json |-> f.full_content_json,
     metadata_refs_json |-> f.metadata_refs_json]

\* C15: a call of process_pdf_markdown_to_json whose steps are interleaved
\* in any order with those of a call on another file ends as it ends when
\* run alone: it raises when that raises, and else returns with the same
\* parse tree and the same three projections
C15_InterleavedCallsAreIndependent ==
    (alone # None /\ other # None /\ Ended(FirstCall)) =>
        Outcome(FirstCall) = Outcome(alone[1])

\* C15's case: both calls have returned, the first with a section in its
\* parse tree, the second having written its text_tables file between the
\* first two files of the first
C15_Witness ==
    /\ alone # None
    /\ other # None
    /\ FirstCall.pc = "done"
    /\ Len(FirstCall.parsed_content[1].sections) >= 1
    /\ Len(written) = 9
    /\ written[4].content = FirstCall.text_tables_json
    /\ written[5].file = "text_tables"
    /\ written[5].content # written[4].content
    /\ written[6].content = FirstCall.full_content_json

\* a line that reaches the table rules with a pipe in it; a line with a pipe
\* and a hyphen, which makes the pipe line before it start a table
TableLineOf ==
    Tabulated([raw \in AllLines \cup {""} |->
        PipeOf[raw] /\ ~HeadingLineOf[raw] /\ ~ImageLineOf[raw]])

DashPipeOf ==
    Tabulated([raw \in AllLines \cup {""} |-> Contains(raw, "|") /\ Contains(raw, "-")])

StartsTableAt(k) ==
    k < Len(lines) /\ TableLineOf[lines[k]] /\ DashPipeOf[lines[k + 1]]

\* lines p..h-1 are a table start and its continuation lines: what is
\* buffered when line h is reached
BufferedRun(p, h) ==
    /\ p < h
    /\ StartsTableAt(p)
    /\ \A k \in p + 1..h - 1 : TableLineOf[lines[k]] /\ ~StartsTableAt(k)

BufferOf(p, h) == [k \in 1..h - p |-> TrimmedOf[lines[p + k - 1]]]

\* C16: the lines buffered when a heading arrives never become a table: no
\* table of the flat list or of a section begins with them
C16_HeadingAbandonsTable ==
    \A p \in 1..LinesRead : \A h \in 1..LinesRead :
        (BufferedRun(p, h) /\ HeadingLineOf[lines[h]]) =>
            \A t \in BuiltTables :
                ~StartsWith(t.raw_content, JoinLines(BufferOf(p, h)))

\* the part of C16 that holds: a heading line changes neither in_table nor
\* the buffer
C16_HeadingKeepsBuffer ==
    [][(pc = "parse" /\ i < Len(lines) /\ HeadingLineOf[lines[i + 1]]) =>
           (in_table' = in_table /\ table_content' = table_content)]_vars

\* C16's case: a heading has arrived while two lines were buffered, and the
\* line after it has been handled
C16_Witness ==
    /\ LinesRead = 4
    /\ BufferedRun(1, 3)
    /\ HeadingLineOf[lines[3]]
    /\ ~PipeOf[lines[4]]
    /\ ~ImageLineOf[lines[4]]
    /\ TrimmedOf[lines[4]] # ""

\* C17: while a table is open, a line with a pipe that reaches the table
\* rules is appended to the buffer, whatever the line after it is: the
\* buffer is never replaced, and its first line stays the line that opened
\* the table
C17_OpenTableOnlyGrows ==
    [][(pc = "parse" /\ in_table /\ i < Len(lines) /\ TableLineOf[lines[i + 1]]) =>
           /\ in_table'
           /\ table_content' = Append(table_content, TrimmedOf[lines[i + 1]])]_vars

\* C17's case: a table was open when a pipe line followed by a line with a
\* pipe and a hyphen was handled
C17_Witness ==
    /\ pc = "parse"
    /\ i >= 3
    /\ BufferedRun(1, i)
    /\ StartsTableAt(i)
    /\ in_table

\* a trimmed line without its whole leading list marker, the hyphen or the
\* numeral with its period, and the whitespace after it
WithoutMarker(t) ==
    LET digits == RunEnd(t, 1, "digit")
        marker == IF Char(t, 1) = "-" THEN 1
                  ELSE IF digits >= 1 /\ Char(t, digits + 1) = "." THEN digits + 1
                  ELSE 0
    IN  SubSeq(t, RunEnd(t, marker + 1, "space") + 1, Len(t))

WithoutMarkerOf == Tabulated([raw \in AllLines \cup {""} |-> WithoutMarker(Strip(raw))])

\* the reference-candidate lines of a references section among the first n
\* lines, and the j-th of them
RefCandidates(n) ==
    {k \in 1..n :
        /\ CandidateOf[lines[k]]
        /\ OpenAt(k) # 0
        /\ ReferencesTitleOf[TitleOf[lines[NthHeading(OpenAt(k), k - 1)]]]}

NthRefCandidate(j, n) ==
    CHOOSE k \in RefCandidates(n) : Cardinality({c \in RefCandidates(n) : c <= k}) = j

\* C18: every reference-candidate line of a references section gives one
\* reference, in the order of the lines, and the raw_text of the reference is
\* the line without its whole leading list marker and the whitespace after
\* it: '12. Smith 2020' gives 'Smith 2020'
C18_RawTextWithoutMarker ==
    (Parsing \/ Parsed) =>
        /\ Len(Tree.references) = Cardinality(RefCandidates(LinesRead))
        /\ \A j \in DOMAIN Tree.references :
               Tree.references[j].raw_text =
                   WithoutMarkerOf[lines[NthRefCandidate(j, LinesRead)]]

\* C18's case: a reference was parsed from a line whose marker is a numeral
\* of two digits
C18_Witness ==
    /\ Parsed
    /\ Len(Tree.references) >= 1
    /\ \E k \in RefCandidates(LinesRead) :
           /\ IsDigit(Char(TrimmedOf[lines[k]], 1))
           /\ IsDigit(Char(TrimmedOf[lines[k]], 2))

\* the part of C18 that holds: one reference for each candidate line, in
\* order, and the marker of a hyphen item removed whole
C18_HyphenMarkerRemoved ==
    (Parsing \/ Parsed) =>
        /\ Len(Tree.references) = Cardinality(RefCandidates(LinesRead))
        /\ \A j \in DOMAIN Tree.references :
               LET raw == lines[NthRefCandidate(j, LinesRead)]
               IN  Char(TrimmedOf[raw], 1) = "-" =>
                       Tree.references[j].raw_text = WithoutMarkerOf[raw]

\* line n is in a run of pipe lines none of which, up to line n, is followed
\* by a line with a pipe and a hyphen
RunStart(n) ==
    Min({k \in 1..n : \A j \in k..n : TableLineOf[lines[j]]})

InRunWithoutSeparator(n) ==
    /\ TableLineOf[lines[n]]
    /\ \A k \in RunStart(n)..n : ~StartsTableAt(k)

\* a list item: a trimmed line that starts with '- ' or a numeral and a period
ListItemOf ==
    Tabulated([raw \in AllLines \cup {""} |->
        LET t == Strip(raw)
        IN  \/ StartsWith(t, "- ")
            \/ \E k \in 1..Len(t) - 1 :
                   /\ \A j \in 1..k : IsDigit(Char(t, j))
                   /\ Char(t, k + 1) = "."])

\* C19: a line of a run of pipe lines without a separator is handled as
\* plain text in every state of the builder: it is not buffered, no table
\* is built, no error is raised, and the line becomes a reference when it is
\* a list item of a references section and else is appended to the content
\* of the open section
C19_RunWithoutSeparatorIsText ==
    [][(Parsing /\ i < Len(lines) /\ InRunWithoutSeparator(i + 1)) =>
           /\ table_content' = table_content
           /\ in_table' = in_table
           /\ parsed'.tables = parsed.tables
           /\ IF in_references /\ ListItemOf[lines[i + 1]]
              THEN pc' = "raised" \/ Len(parsed'.references) = Len(parsed.references) + 1
              ELSE /\ pc' = "parse"
                   /\ current_section # None =>
                          current_section'[1].content =
                              Append(current_section[1].content, TrimmedOf[lines[i + 1]])]_vars

\* the part of C19 that holds: the same when no table is open
C19_RunWithNoTableOpenIsText ==
    [][(Parsing /\ i < Len(lines) /\ InRunWithoutSeparator(i + 1) /\ ~in_table) =>
           /\ table_content' = table_content
           /\ in_table' = in_table
           /\ parsed'.tables = parsed.tables
           /\ IF in_references /\ ListItemOf[lines[i + 1]]
              THEN pc' = "raised" \/ Len(parsed'.references) = Len(parsed.references) + 1
              ELSE /\ pc' = "parse"
                   /\ current_section # None =>
                          current_section'[1].content =
                              Append(current_section[1].content, TrimmedOf[lines[i + 1]])]_vars

\* C19's case: a pipe line without a separator after it has been handled
\* while the table opened before a blank line was still open
C19_Witness ==
    /\ Parsing
    /\ i >= 3
    /\ InRunWithoutSeparator(i)
    /\ TrimmedOf[lines[i - 1]] = ""
    /\ in_table

\* a line that ends an open table: a non-empty line without a pipe that is
\* no heading and no image
EndLineOf ==
    Tabulated([raw \in AllLines \cup {""} |->
        /\ Strip(raw) # ""
        /\ ~PipeOf[raw] /\ ~HeadingLineOf[raw] /\ ~ImageLineOf[raw]])

\* a table is open when line n is reached: one was started before and no
\* line has ended it since
OpenBefore(n) ==
    \E p \in 1..n - 1 :
        /\ StartsTableAt(p)
        /\ \A k \in p + 1..n - 1 : ~EndLineOf[lines[k]]

\* the table-end events among the first n lines
TableEndEvents(n) == {k \in 1..n : EndLineOf[lines[k]] /\ OpenBefore(k)}

\* C20: the tables of the parse tree are those built at the table-end
\* events, one for each, while the builder runs and in the tree returned; the
\* end of the input appends the open section, if any, to the sections, once,
\* and builds no table: a table still open then gives none
C20_OpenTableAtEndIsDropped ==
    /\ []((Parsing \/ Parsed) =>
              /\ Len(Tree.tables) = Cardinality(TableEndEvents(LinesRead))
              /\ {Tree.tables[m].obj : m \in DOMAIN Tree.tables} =
                     TableEndEvents(LinesRead)
              /\ Parsing => (in_table = OpenBefore(i + 1)))
    /\ [][(Parsing /\ i = Len(lines)) =>
              /\ parsed_content' # None
              /\ parsed_content'[1].sections = parsed.sections \o current_section
              /\ parsed_content'[1].tables = parsed.tables
              /\ \A k \in DOMAIN parsed_content'[1].sections :
                     parsed_content'[1].sections[k].tables =
                         (parsed.sections \o current_section)[k].tables
              /\ stats'.total_tables = stats.total_tables]_vars

\* C20's case: the input has ended with a section open and a table of two
\* lines open, and the tree returned has the section and no table
C20_Witness ==
    /\ Parsed
    /\ OpenBefore(Len(lines) + 1)
    /\ BufferedRun(Len(lines) - 1, Len(lines) + 1)
    /\ Len(Tree.sections) = 1
    /\ Tree.tables = << >>

\* the sections of the builder, the open one last, with the content and the
\* images of each
Built == parsed.sections \o current_section

Contents == [k \in DOMAIN Built |-> Built[k].content]

SectionImages == [k \in DOMAIN Built |-> Built[k].images]

\* the rule that takes line n, by the precedence heading, image, table
\* start, table continuation, reference candidate, plain text
RuleOf(n) ==
    IF HeadingLineOf[lines[n]] THEN "heading"
    ELSE IF ImageLineOf[lines[n]] THEN "image"
    ELSE IF StartsTableAt(n) THEN "table_start"
    ELSE IF in_table /\ PipeOf[lines[n]] THEN "table_continuation"
    ELSE IF in_references /\ ListItemOf[lines[n]] THEN "reference"
    ELSE "text"

\* what a step leaves alone: the images, the references, and the buffer,
\* which gains no line
SameImages == parsed'.images = parsed.images /\ SectionImages' = SectionImages

SameReferences == parsed'.references = parsed.references

NotBuffered == table_content' \in {table_content, << >>}

\* C21: a step of the builder on a non-empty line that does not end in an
\* error puts the line into exactly one sink, the one of its rule: a
\* heading opens a section, an image line gives one image, a table start or
\* continuation is put into the buffer, a reference candidate gives one
\* reference, and a plain line is appended trimmed to the content of the
\* open section, and goes nowhere only when no section is open
C21_OneSinkPerLine ==
    [][(Parsing /\ i < Len(lines) /\ TrimmedOf[lines[i + 1]] # "" /\ pc' = "parse") =>
           LET t == TrimmedOf[lines[i + 1]]
               rule == RuleOf(i + 1)
           IN  /\ i' = i + 1
               /\ IF rule = "heading"
                  THEN /\ Len(Built') = Len(Built) + 1
                       /\ SubSeq(Contents', 1, Len(Built)) = Contents
                       /\ Built'[Len(Built')].content = << >>
                       /\ SubSeq(SectionImages', 1, Len(Built)) = SectionImages
                       /\ parsed'.images = parsed.images
                  ELSE Len(Built') = Len(Built)
               /\ IF rule = "image"
                  THEN Len(parsed'.images) = Len(parsed.images) + 1
                  ELSE rule # "heading" => SameImages
               /\ IF rule = "table_start" THEN table_content' = << t >>
                  ELSE IF rule = "table_continuation"
                       THEN table_content' = Append(table_content, t)
                       ELSE NotBuffered
               /\ IF rule = "reference"
                  THEN Len(parsed'.references) = Len(parsed.references) + 1
                  ELSE SameReferences
               /\ IF rule = "text" /\ current_section # None
                  THEN Contents' = [Contents EXCEPT ![Len(Built)] = Append(@, t)]
                  ELSE rule # "heading" => Contents' = Contents]_vars

\* C21's case: a list item has been taken as a reference while a table was
\* open, after a pipe line was buffered and a heading opened the section
C21_Witness ==
    /\ Parsing
    /\ i = 4
    /\ StartsTableAt(1)
    /\ HeadingLineOf[lines[3]]
    /\ ListItemOf[lines[4]]
    /\ Len(parsed.references) = 1
    /\ Len(parsed.tables) = 1
    /\ Built[1].content = << >>

\* the table lists of the sections of the builder
SectionTables == [k \in DOMAIN Built |-> Built[k].tables]

\* C22: when a table is open and a non-empty line without a pipe that is no
\* heading and no image is handled, the table counter grows by one; unless
\* the line ends the parse in an error, one table with the buffered lines as
\* raw_content is appended to the flat list and, when a section is open, the
\* same table to the table list of that section and of no other; the table
\* is closed and the buffer empty; and the line itself gives one reference
\* when it is a list item of a references section, and else is appended to
\* the content of the open section
C22_TableEnd ==
    [][(Parsing /\ i < Len(lines) /\ in_table /\ EndLineOf[lines[i + 1]]) =>
           /\ stats'.total_tables = stats.total_tables + 1
           /\ pc' = "parse" =>
                  LET t == TrimmedOf[lines[i + 1]]
                      n == Len(parsed.tables)
                  IN  /\ Len(parsed'.tables) = n + 1
                      /\ SubSeq(parsed'.tables, 1, n) = parsed.tables
                      /\ parsed'.tables[n + 1].raw_content = JoinLines(table_content)
                      /\ Len(Built') = Len(Built)
                      /\ \A k \in DOMAIN Built :
                             SectionTables'[k] =
                                 IF k = Len(Built)
                                 THEN Append(SectionTables[k], parsed'.tables[n + 1])
                                 ELSE SectionTables[k]
                      /\ ~in_table'
                      /\ table_content' = << >>
                      /\ IF in_references /\ ListItemOf[lines[i + 1]]
                         THEN /\ Len(parsed'.references) = Len(parsed.references) + 1
                              /\ Contents' = Contents
                         ELSE /\ parsed'.references = parsed.references
                              /\ current_section # None =>
                                     Contents' = [Contents EXCEPT
                                                      ![Len(Built)] = Append(@, t)]]_vars

\* C22's case: a plain line has ended a table of two lines in an open
\* section: the section has the table and the line
C22_Witness ==
    /\ Parsing
    /\ i = 4
    /\ HeadingLineOf[lines[1]]
    /\ BufferedRun(2, 4)
    /\ EndLineOf[lines[4]]
    /\ ~in_table
    /\ Len(parsed.tables) = 1
    /\ current_section # None
    /\ current_section[1].tables = parsed.tables
    /\ current_section[1].content = << TrimmedOf[lines[4]] >>

\* the first image syntax ![alt](path) of a line: its alt text and its path
FirstImage(raw) ==
    LET a == Min(Occurrences(raw, "!["))
        b == Min({k \in Occurrences(raw, "](") : k >= a + 2})
        c == Min({k \in Occurrences(raw, ")") : k >= b + 2})
    IN  [alt_text |-> SubSeq(raw, a + 2, b - 1), path |-> SubSeq(raw, b + 2, c - 1)]

ImageOf ==
    Tabulated([raw \in AllLines \cup {""} |->
        IF ImageLineOf[raw] THEN Some(FirstImage(Strip(raw))) ELSE None])

\* C23: a non-heading line with image syntax gives exactly one image, with
\* alt_text and path from the syntax, caption = alt_text and line_number the
\* number of the line in the input, appended to the flat list and, when a
\* section is open, to the image list of that section; the line is put into
\* no other sink, and in_table and the buffer are as before, also when a
\* table is open and the line has a pipe
C23_ImageLine ==
    [][(Parsing /\ i < Len(lines) /\ ImageLineOf[lines[i + 1]]) =>
           LET image == [alt_text |-> ImageOf[lines[i + 1]][1].alt_text,
                         path |-> ImageOf[lines[i + 1]][1].path,
                         caption |-> ImageOf[lines[i + 1]][1].alt_text,
                         line_number |-> i + 1]
           IN  /\ parsed'.images = Append(parsed.images, image)
               /\ Len(Built') = Len(Built)
               /\ \A k \in DOMAIN Built :
                      SectionImages'[k] =
                          IF k = Len(Built) THEN Append(SectionImages[k], image)
                          ELSE SectionImages[k]
               /\ in_table' = in_table
               /\ table_content' = table_content
               /\ Contents' = Contents
               /\ SectionTables' = SectionTables
               /\ parsed'.tables = parsed.tables
               /\ parsed'.references = parsed.references]_vars

\* C23's case: a line with pipes and two images has been handled in an open
\* section while a table of two lines was open
C23_Witness ==
    /\ Parsing
    /\ i = 4
    /\ HeadingLineOf[lines[1]]
    /\ StartsTableAt(2)
    /\ PipeOf[lines[4]]
    /\ ImageLineOf[lines[4]]
    /\ in_table
    /\ Len(table_content) = 2
    /\ Len(parsed.images) = 1
    /\ parsed.images[1].line_number = 4
    /\ current_section[1].images = parsed.images

\* the title of the last heading among the first n lines has one of the
\* words of a references section
InReferencesAfter(n) ==
    /\ Headings(n) # {}
    /\ ReferencesTitleOf[TitleOf[lines[Max(Headings(n))]]]

\* line n gets to the reference rule: it is no blank line, heading or image
\* and is not taken by the table rules
ReachesReferenceRule(n) ==
    /\ TrimmedOf[lines[n]] # ""
    /\ ~HeadingLineOf[lines[n]]
    /\ ~ImageLineOf[lines[n]]
    /\ ~StartsTableAt(n)
    /\ ~(in_table /\ PipeOf[lines[n]])

\* C24: while the builder runs, in_references is true exactly when the
\* title of the last heading read has 'reference', 'bibliography' or
\* 'citation' in it, in any case; a step appends a reference, one, at the
\* end of the list, exactly when its line is a list item that gets to the
\* reference rule while the flag is true, and such a step appends nothing
\* to the content of a section
C24_ReferencesFlag ==
    /\ [](Parsing => (in_references = InReferencesAfter(i)))
    /\ [][(Parsing /\ i < Len(lines) /\ pc' = "parse") =>
              IF /\ InReferencesAfter(i)
                 /\ ListItemOf[lines[i + 1]]
                 /\ ReachesReferenceRule(i + 1)
              THEN /\ Len(parsed'.references) = Len(parsed.references) + 1
                   /\ SubSeq(parsed'.references, 1, Len(parsed.references)) =
                          parsed.references
                   /\ Contents' = Contents
              ELSE parsed'.references = parsed.references]_vars

\* C24's case: a references section titled in another case and with another
\* of the words has ended, with one reference, and the list item read after
\* the next heading is in the content of the new section
C24_Witness ==
    /\ Parsing
    /\ i = 4
    /\ TitleOf[lines[1]] = "ABSTRACT and Citations"
    /\ Len(parsed.references) = 1
    /\ ~in_references
    /\ current_section[1].content = << "- Smith 2020" >>

\* C25: the step on a line of whitespace only goes to the next line and
\* changes nothing else: not the open section, in_table, the buffer,
\* in_references, the tree under construction or the statistics
C25_BlankLineIsSkipped ==
    [][(Parsing /\ i < Len(lines) /\ TrimmedOf[lines[i + 1]] = "") =>
           /\ i' = i + 1
           /\ pc' = "parse"
           /\ UNCHANGED << current_section, in_table, table_content,
                           in_references, parsed, stats >>]_vars

\* C25's case: a blank line has been read while a table of two lines was
\* open in a section, and the table is still open with its two lines
C25_Witness ==
    /\ Parsing
    /\ i = 4
    /\ TrimmedOf[lines[4]] = ""
    /\ BufferedRun(2, 4)
    /\ current_section # None
    /\ in_table
    /\ Len(table_content) = 2

\* the pieces of a line between two '|' next to each other or an end of the
\* line, as pairs of the positions around them
PiecesOf(raw) ==
    LET bars == {0, Len(raw) + 1} \cup {k \in 1..Len(raw) : Char(raw, k) = "|"}
    IN  {pp \in bars \X bars :
            /\ pp[1] < pp[2]
            /\ \A k \in pp[1] + 1..pp[2] - 1 : Char(raw, k) # "|"}

\* the positions of a piece that hold something else than white space
InkOf(raw, pp) == {k \in pp[1] + 1..pp[2] - 1 : ~IsSpace(Char(raw, k))}

\* the non-empty trimmed cells of a line, in order
CellTextsOf ==
    Tabulated([raw \in TableVocabulary |->
        LET full == {pp \in PiecesOf(raw) : InkOf(raw, pp) # {}}
            nth(j) == CHOOSE pp \in full :
                          Cardinality({qq \in full : qq[1] < pp[1]}) = j - 1
        IN  [j \in 1..Cardinality(full) |->
                SubSeq(raw, Min(InkOf(raw, nth(j))), Max(InkOf(raw, nth(j))))]])

\* the cells of the lines of a buffer from the third on, one row a line, the
\* lines without a cell left out
RowTextsOf(buffer) ==
    LET from == {k \in 3..Len(buffer) : CellTextsOf[buffer[k]] # << >>}
        nth(j) == CHOOSE k \in from : Cardinality({m \in from : m < k}) = j - 1
    IN  [j \in 1..Cardinality(from) |-> CellTextsOf[buffer[nth(j)]]]

\* the position in the joined text before the first character of part k
RECURSIVE OffsetOf(_, _)
OffsetOf(parts, k) ==
    IF k = 1 THEN 0 ELSE OffsetOf(parts, k - 1) + Len(parts[k - 1]) + 1

\* text is the parts, in order, with one character sep between two of them
JoinedWith(text, parts, sep) ==
    IF parts = << >> THEN text = ""
    ELSE /\ Len(text) = OffsetOf(parts, Len(parts)) + Len(parts[Len(parts)])
         /\ \A k \in 1..Len(parts) :
                /\ SubSeq(text, OffsetOf(parts, k) + 1,
                          OffsetOf(parts, k) + Len(parts[k])) = parts[k]
                /\ k > 1 => Char(text, OffsetOf(parts, k)) = sep

\* C26: for a buffer of two lines or more, the headers are the non-empty
\* trimmed cells of the first line, the rows are those of each line from the
\* third on that has one, of whatever width, the second line gives no row,
\* and raw_content is the lines joined by newlines
C26_TableAssembler ==
    (table # None /\ Len(arg_table_lines) >= 2) =>
        /\ table[1].headers = CellTextsOf[arg_table_lines[1]]
        /\ table[1].rows = RowTextsOf(arg_table_lines)
        /\ JoinedWith(table[1].raw_content, arg_table_lines, "\n")

\* C26's case: a table built from a header of two cells, a second line that
\* is a data row, a line of empty cells and a row of three cells
C26_Witness ==
    /\ table # None
    /\ arg_table_lines = << "| A | B |", "| | y |", "|  |  |", "| 1 | 2 | 3 |" >>
    /\ table[1].headers = << "A", "B" >>
    /\ table[1].rows = << << "1", "2", "3" >> >>
    /\ table[1].raw_content = "| A | B |\n| | y |\n|  |  |\n| 1 | 2 | 3 |"

\* the place of the opening quote of the first quoted, non-empty run of
\* characters of a text, or 0
QuotedAt(text) ==
    LET opens == {k \in 1..Len(text) :
                    /\ Char(text, k) = "\""
                    /\ Char(text, k + 1) \notin {"\"", ""}
                    /\ \E m \in k + 2..Len(text) : Char(text, m) = "\""}
    IN  IF opens = {} THEN 0 ELSE Min(opens)

\* the place of the first 19xx or 20xx standing as a word of a text, or 0
YearAt(text) ==
    LET at == {k \in 1..Len(text) :
                 /\ StartsAt(text, k, "19") \/ StartsAt(text, k, "20")
                 /\ IsDigit(Char(text, k + 2)) /\ IsDigit(Char(text, k + 3))
                 /\ ~IsWordChar(Char(text, k - 1))
                 /\ ~IsWordChar(Char(text, k + 4))}
    IN  IF at = {} THEN 0 ELSE Min(at)

\* the author part: the text before the matched title, else before the
\* matched year, else the first 100 characters
AuthorPartBeforeMatch(text) ==
    IF QuotedAt(text) > 0 THEN SubSeq(text, 1, QuotedAt(text))
    ELSE IF YearAt(text) > 0 THEN SubSeq(text, 1, YearAt(text) - 1)
    ELSE SubSeq(text, 1, IF Len(text) < 100 THEN Len(text) ELSE 100)

\* the commas and the words 'and' of a text, with both its ends, as pairs
\* of a first and a last position
CutsOf(part) ==
    {<< 0, 0 >>, << Len(part) + 1, Len(part) + 1 >>}
    \cup {<< k, k >> : k \in {m \in 1..Len(part) : Char(part, m) = ","}}
    \cup {<< k, k + 2 >> : k \in {m \in 1..Len(part) :
                                     /\ StartsAt(part, m, "and")
                                     /\ ~IsWordChar(Char(part, m - 1))
                                     /\ ~IsWordChar(Char(part, m + 3))}}

\* what is between two cuts next to each other, trimmed and then without
\* its trailing periods
CandidateBetween(part, a, b) ==
    LET ink == {k \in a[2] + 1..b[1] - 1 : ~IsSpace(Char(part, k))}
        body == IF ink = {} THEN {}
                ELSE {k \in Min(ink)..Max(ink) : Char(part, k) # "."}
    IN  IF body = {} THEN "" ELSE SubSeq(part, Min(ink), Max(body))

\* the candidates of an author part that are kept, in order
KeptCandidates(part) ==
    LET pairs == {ab \in CutsOf(part) \X CutsOf(part) :
                    /\ ab[1][2] < ab[2][1]
                    /\ \A c \in CutsOf(part) :
                           ~(ab[1][2] < c[1] /\ c[1] < ab[2][1])}
        kept == {ab \in pairs :
                    LET cand == CandidateBetween(part, ab[1], ab[2])
                    IN  /\ Len(cand) > 1
                        /\ \E k \in 1..Len(cand) : ~IsDigit(Char(cand, k))}
        nth(j) == CHOOSE ab \in kept :
                      Cardinality({cd \in kept : cd[1][1] < ab[1][1]}) = j - 1
    IN  [j \in 1..Cardinality(kept) |->
            CandidateBetween(part, nth(j)[1], nth(j)[2])]

\* the first five at most of a list
FirstFive(seq) == SubSeq(seq, 1, IF Len(seq) < 5 THEN Len(seq) ELSE 5)

\* C27: the authors of every reference parsed are the first five at most of
\* the kept candidates of the text before the matched title, else before the
\* matched year, else of the first 100 characters
C27_AuthorsFromTextBeforeMatch ==
    (pc = "parse_reference_done" /\ reference[1].ok) =>
        reference[1].value.authors =
            FirstFive(KeptCandidates(AuthorPartBeforeMatch(arg_text)))

\* the author part with the title and the year looked up again in the text:
\* the text before the first place where the characters of the matched
\* title, else of the matched year, occur
AuthorPartBeforeFirstOccurrence(text) ==
    LET first(sub) == Min({k \in 1..Len(text) : StartsAt(text, k, sub)})
        q == QuotedAt(text)
        closing == Min({m \in q + 2..Len(text) : Char(text, m) = "\""})
        y == YearAt(text)
    IN  IF q > 0 THEN SubSeq(text, 1, first(SubSeq(text, q + 1, closing - 1)) - 1)
        ELSE IF y > 0 THEN SubSeq(text, 1, first(SubSeq(text, y, y + 3)) - 1)
        ELSE SubSeq(text, 1, IF Len(text) < 100 THEN Len(text) ELSE 100)

\* what holds in place of C27: the authors are the first five at most of the
\* kept candidates of the text before the first occurrence
C27_AuthorsFromTextBeforeFirstOccurrence ==
    (pc = "parse_reference_done" /\ reference[1].ok) =>
        reference[1].value.authors =
            FirstFive(KeptCandidates(AuthorPartBeforeFirstOccurrence(arg_text)))

\* C27's case: a reference with a title whose characters occur before the
\* quoted title has been parsed and has no author
C27_Witness ==
    /\ pc = "parse_reference_done"
    /\ arg_text = "Growth, A. \"Growth\" 2020. "
    /\ reference[1].ok
    /\ reference[1].value.title = Some("Growth")
    /\ reference[1].value.authors = << >>
    /\ KeptCandidates(AuthorPartBeforeMatch(arg_text)) = << "Growth", "A. \"" >>

\* the metadata of the returned tree
Metadata == parsed_content[1].metadata[1]

\* C28: the title of the metadata is the title of the first heading of the
\* input when that heading has one '#', and is unset when the input has no
\* heading or its first heading has more, whatever comes later
C28_TitleFromFirstSection ==
    Parsed =>
        IF /\ Headings(Len(lines)) # {}
           /\ LevelOf[lines[NthHeading(1, Len(lines))]] = 1
        THEN Metadata.title = Some(TitleOf[lines[NthHeading(1, Len(lines))]])
        ELSE Metadata.title = None

\* C28's case: the first heading has three '#', a heading with one '#'
\* comes later, and the title is unset
C28_Witness ==
    /\ Parsed
    /\ LevelOf[lines[1]] = 3
    /\ \E k \in 2..Len(lines) : HeadingLineOf[lines[k]] /\ LevelOf[lines[k]] = 1
    /\ Len(Sections) >= 2
    /\ Metadata.title = None

\* a line whose title has 'abstract' in it, in any case
AbstractTitleOf ==
    Tabulated([raw \in AllLines \cup {""} |->
        \E k \in 1..Len(TitleOf[raw]) :
            \A j \in 1..8 :
                Char(TitleOf[raw], k + j - 1) \in
                    {Char("abstract", j), Char("ABSTRACT", j)}])

\* the sections, among the first three, under a heading with such a title
AbstractSectionsOf ==
    {s \in 1..3 : /\ s <= Cardinality(Headings(Len(lines)))
                  /\ AbstractTitleOf[lines[NthHeading(s, Len(lines))]]}

\* C29: the abstract of the metadata is the content of the earliest of the
\* first three sections with 'abstract' in its title, in any case, its lines
\* joined by one space each; it is unset when none of the three has, even
\* when a later section has
C29_AbstractFromFirstThree ==
    Parsed =>
        IF AbstractSectionsOf # {}
        THEN /\ Metadata.abstract # None
             /\ JoinedWith(Metadata.abstract[1],
                           Sections[Min(AbstractSectionsOf)].content, " ")
        ELSE Metadata.abstract = None

\* C29's case: the fourth section is titled Abstract, none of the first
\* three is, and the abstract is unset
C29_Witness ==
    /\ Parsed
    /\ Len(Sections) = 4
    /\ Sections[4].title = "Abstract"
    /\ AbstractSectionsOf = {}
    /\ Metadata.abstract = None

\* C29's other case: the abstract joins two lines of content
C29_WitnessJoined ==
    /\ Parsed
    /\ AbstractSectionsOf # {}
    /\ Len(Sections[Min(AbstractSectionsOf)].content) = 2
    /\ Metadata.abstract = Some("Intro text. - Smith 2020")

\* the calls that had returned before the present one started
EarlierRuns == IF pc = "done" THEN RunsDone - 1 ELSE RunsDone

\* the tables in the text_tables files among the first n files written
RECURSIVE TablesWritten(_)
TablesWritten(n) ==
    IF n = 0 THEN 0
    ELSE TablesWritten(n - 1)
         + IF written[n].file = "text_tables"
           THEN Len(written[n].content[1].tables) ELSE 0

\* the tables of the parses of the earlier calls, three files a call
TablesOfEarlierRuns == TablesWritten(3 * EarlierRuns)

\* C30: once a parse has returned, total_sections, total_images and
\* total_references are the sizes of the lists of its tree, whatever was
\* parsed before on the processor; total_tables is the size of the table
\* list of the tree for the first parse of a processor, and for a later parse
\* that size added to the tables of all the parses before; no step makes
\* total_tables smaller
C30_StatsAfterParse ==
    /\ [](Parsed =>
            /\ stats.total_sections = Len(Tree.sections)
            /\ stats.total_images = Len(Tree.images)
            /\ stats.total_references = Len(Tree.references)
            /\ stats.total_tables = TablesOfEarlierRuns + Len(Tree.tables)
            /\ EarlierRuns = 0 => stats.total_tables = Len(Tree.tables))
    /\ [][stats'.total_tables >= stats.total_tables]_vars

\* C30's case: a second parse has returned on a processor; the file parsed
\* first had one section and one table, this one has no section and two
\* tables, and the statistics say no section and three tables
C30_Witness ==
    /\ Parsed
    /\ EarlierRuns = 1
    /\ Len(written[1].content[1].sections) = 1
    /\ Len(written[1].content[1].tables) = 1
    /\ Len(Tree.sections) = 0
    /\ Len(Tree.tables) = 2
    /\ stats.total_sections = 0
    /\ stats.total_tables = 3

=============================================================================
